---- MODULE Spec2Model ----
(***************************************************************************)
(* A model of the netidx network substrate:                                *)
(*   - the framed channel (netidx/src/channel.rs): WriteChannel with its   *)
(*     flush task, and the read task of ReadChannel;                       *)
(*   - the resolver server's write sessions                                *)
(*     (netidx/src/resolver_server.rs): hello_client_write and             *)
(*     client_loop_write over the shared Clinfos map;                      *)
(*   - the subscriber (src/subscriber.rs): subscribe_raw, the per          *)
(*     publisher connection task, handle_val / handle_control.             *)
(* Each part has its own specification (Init/Next pair) over its own       *)
(* group of variables; the other groups are left unchanged.                *)
(***************************************************************************)
EXTENDS Integers, Sequences, FiniteSets, TLC

\* ------------------------------------------------------------------------
\* Generic helpers
\* ------------------------------------------------------------------------

RECURSIVE SumSeq(_)
SumSeq(s) == IF s = <<>> THEN 0 ELSE s[1] + SumSeq(Tail(s))

RECURSIVE Flatten(_)
Flatten(ss) == IF ss = <<>> THEN <<>> ELSE ss[1] \o Flatten(Tail(ss))

Front(s) == SubSeq(s, 1, Len(s) - 1)

Range(s) == {s[i] : i \in DOMAIN s}

None == "None"

\* ------------------------------------------------------------------------
\* State.  One group of variables per part.
\* ------------------------------------------------------------------------

\* Part W: WriteChannel and its flush task (netidx/src/channel.rs)
VARIABLES
    buf,        \* WriteChannel.buf: the bytes queued and not yet handed off
    boundries,  \* WriteChannel.boundries (spelling of the source)
    to_flush,   \* the messages in the channel to the flush task
    wctx,       \* the flush task's ctx: FALSE = None
    walive,     \* the flush task is running (its receiver is open)
    wire,       \* the frames the flush task wrote to the socket, in order
    handed,     \* the chunks handed to the flush task so far, in order
    queued,     \* the encodings of the successfully queued messages
    nmsg,       \* queue_send calls made so far
    wpc,        \* "idle" or "flushing" (flush() waiting in poll_ready)
    wlast,      \* the last call on the channel, its result and the state before it
    wclean,     \* clear has not been called so far (ghost)
    wsetat      \* the number of chunks handed over when set_ctx was called,
                \* -1 before the call (ghost)

varsW == <<buf, boundries, to_flush, wctx, walive, wire, handed, queued, nmsg, wpc, wlast,
           wclean, wsetat>>

\* Part R: ReadChannel and its read task (netidx/src/channel.rs)
VARIABLES
    rbuf,       \* frames that arrived on the socket and the task has not handled
    rctx,       \* the read task's ctx: FALSE = None
    set_ctx,    \* the oneshot ReadChannel.set_ctx -> read task: "unset", "sent", "taken"
    incoming,   \* the channel read task -> ReadChannel (frames, in order)
    received,   \* the frames fill_buffer handed to the caller, in order
    rstate,     \* the read task: "running" or why it ended
    nframe      \* frames that arrived so far

varsR == <<rbuf, rctx, set_ctx, incoming, received, rstate, nframe>>

\* Part B: one write session's handling of incoming batches
\* (netidx/src/resolver_server.rs, client_loop_write 136-190)
VARIABLES
    bpc,          \* where the session is: "select", "split", "clear", "flush",
                  \* "handled" (end of the match arm), "closed" (con = None),
                  \* "failed" (returned Err), "timeout" (cleaned up at a tick)
    batch,        \* the messages of the batch not yet handled
    act,          \* client_loop_write's act flag
    acks_queued,  \* acks queue_send put in the connection's buffer, not flushed
    acks_flushed, \* acks flushed to the writer since the batch arrived
    bstore,       \* the paths the store holds for write_addr
    borig,        \* the batch as it arrived
    bproc,        \* how many messages of borig have been handled
    bev           \* the last arm the select took: "none", "batch", "hb" (a
                  \* singleton Heartbeat) or "tick" (ghost)

varsB == <<bpc, batch, act, acks_queued, acks_flushed, bstore, borig, bproc, bev>>

\* Part S: the write sessions of one write_addr over the shared Clinfos map
\* (netidx/src/resolver_server.rs, hello_client_write and client_loop_write)
VARIABLES
    spc,          \* per session: "idle" (not connected yet), "check" (in the
                  \* ttl_expired loop), "wait" (rx.await on a cleanup), "auth"
                  \* (at the match on hello.auth), "send" (awaiting the sends of
                  \* the handshake), "own" (waiting for the ownership reply),
                  \* "reg" (about to register), "loop" (select of the main
                  \* loop), "tick" (tick arm taken, Clinfos not locked yet),
                  \* "clearing" (handle_clear awaited), "done"
    sauth,        \* hello.auth of the session
    ttl_expired,  \* the flag the session computed and sent in ServerHelloWrite
    ssecret,      \* the secret secstore.create drew for the session
    sreply,       \* the reply to the ownership check
    clinfos,      \* the Clinfos entry of write_addr
    rx_stop,      \* per session: a stop was sent on its stop channel
    secstore,     \* the security store's entry for write_addr: 0 = none, else
                  \* the session that stored it
    spublished,   \* the store holds registrations for write_addr
    sact,         \* client_loop_write's act
    scon,         \* client_loop_write's con is Some
    ssince,       \* time since the session's interval last ticked
    sidle,        \* time since the session last received a batch
    lastReg,      \* the session that registered last, 0 = none
    shello        \* per session: how long the wait of the hello it is in has
                  \* lasted

varsS == <<spc, sauth, ttl_expired, ssecret, sreply, clinfos, rx_stop, secstore,
           spublished, sact, scon, ssince, sidle, lastReg, shello>>

\* Part U: subscribe_raw calls for one path and the connection task of the one
\* publisher address it resolves to (src/subscriber.rs)
VARIABLES
    ust,           \* per caller: "idle" (called, Init not run yet), the St of
                   \* the path in the caller's pending map ("Resolve",
                   \* "Subscribing", "WaitingOther", "Subscribed", "Error"), or
                   \* "done" (subscribe_raw returned)
    uraw,          \* per caller: the id of the RawSubscription it holds, 0 = none
    ures,          \* per caller: what subscribe_raw returned: 0 = nothing yet,
                   \* -1 = Err, else the id of the subscription
    wres,          \* per caller: what is in its WaitingOther oneshot (as ures)
    fres,          \* per caller: what is in the `finished` oneshot of its
                   \* SubscribeRequest (as ures; -2 = the sender was dropped)
    subscribed,    \* SubscriberInner.subscribed[path]
    connections,   \* SubscriberInner.connections[addr]: "none", "running" (the
                   \* task's receiver is open), "dead" (the task has ended)
    from_sub,      \* the ToCon messages queued to the connection task
    batched,       \* connection's batched: frames encoded and not sent yet
    to_pub,        \* the frames written to the publisher, in order
    from_pub,      \* frames from the publisher the task has not read yet
    pending,       \* connection's pending[path]: the caller of the request, 0 = none
    next_val,      \* connection's next_val: an id, 0 = None
    next_sub,      \* connection's next_sub: the caller of the request, 0 = None
    subscriptions, \* the ids in connection's subscriptions
    nsent,         \* Subscribe frames sent to the publisher so far
    npub,          \* the number of frames the publisher's end has sent
    nattempt,      \* Pending entries created so far
    uatt,          \* per caller: nattempt when its Init ran
    nreplied,      \* NoSuchValue and Subscribed frames the publisher's end has sent
    solicited,     \* each of them was sent while a Subscribe sent was unanswered
    ucalled,       \* per caller: its r.resolve call has returned
    ulast,         \* per id: Sub.last as the number of the frame it holds, 0
                   \* while subscriptions has no Sub for the id
    udead,         \* per id: the dead flag of the Sub last created for the id
    udeads,        \* per id: Sub.deads, as the callers whose sender it holds
    uwait,         \* per caller: its RawSubscription::dead call: 0 = not
                   \* called, the id it waits on, or -1 = returned
    upaths         \* per caller: how many times its batch names the path

varsU == <<ust, uraw, ures, wres, fres, subscribed, connections, from_sub, batched,
           to_pub, from_pub, pending, next_val, next_sub, subscriptions, nsent,
           npub, nattempt, uatt, nreplied, solicited, ucalled, ulast, udead,
           udeads, uwait, upaths>>

\* Part V: one subscription of a connection task and the streams of updates()
\* (src/subscriber.rs)
VARIABLES
    vin,        \* frames from the publisher not yet read by the task: hdr says
                \* whether the frame decodes as Message(id), n numbers the frames
    vpub,       \* the number of frames the publisher's end has sent
    vnext_val,  \* connection: next_val is Some(id)
    vreqs,      \* ToCon::Stream requests queued in from_sub
    streams,    \* Sub.streams: the senders, by stream number
    sub_last,   \* Sub.last
    vchan,      \* per stream, the values in its mpsc channel
    vclosed,    \* per stream, its receiver was dropped
    vrecv,      \* per stream, the values its consumer has taken (ghost)
    vnstreams,  \* the number of updates() calls so far
    vpc,        \* connection: "select", "val" inside handle_val, "closed"
    vi,         \* handle_val: i
    vmsg,       \* handle_val: msg
    vlog,       \* the values the task has received for the id, in order (ghost)
    vreg,       \* per stream, Len(vlog) when it was registered, 0 before (ghost)
    vwant       \* per stream, begin_with_last of its request (ghost)

varsV == <<vin, vpub, vnext_val, vreqs, streams, sub_last, vchan, vclosed, vrecv,
           vnstreams, vpc, vi, vmsg, vlog, vreg, vwant>>

\* Part X: one application of a function of Value (netidx-netproto/src/value.rs)
VARIABLES
    xv,         \* the value the function is applied to
    xarg,       \* the second input: a Typ, a value or the bytes after the value
    xop,        \* the function applied: "none" before, then "cast", "add", ...
    xres,       \* what cast or the operator returned
    xbuf,       \* the buffer after encode
    xdec        \* what decode returned and left in the buffer

varsX == <<xv, xarg, xop, xres, xbuf, xdec>>

\* Part L: server_loop and the sessions it spawns (netidx/src/resolver_server.rs)
VARIABLES
    lstop,      \* the server's stop one-shot has been sent
    lpc,        \* server_loop: "select", "wait" (the loop on num_open), "returned"
    lstops,     \* client_stops: the sessions whose sender the loop holds
    lsig,       \* the sessions whose server_stop receiver is complete
    lopen,      \* ctracker: the connection ids that are open
    lsess,      \* per session: "none", "hello", "main" (its main loop), "done"
    lkind,      \* per session: "read" or "write", known after the hello
    lact,       \* per session: act
    lcon        \* per session: con is Some (a read session's always is)

varsL == <<lstop, lpc, lstops, lsig, lopen, lsess, lkind, lact, lcon>>

OthersW == <<varsR, varsB, varsS, varsU, varsV, varsX, varsL>>
OthersR == <<varsW, varsB, varsS, varsU, varsV, varsX, varsL>>
OthersB == <<varsW, varsR, varsS, varsU, varsV, varsX, varsL>>
OthersS == <<varsW, varsR, varsB, varsU, varsV, varsX, varsL>>
OthersU == <<varsW, varsR, varsB, varsS, varsV, varsX, varsL>>
OthersV == <<varsW, varsR, varsB, varsS, varsU, varsX, varsL>>
OthersX == <<varsW, varsR, varsB, varsS, varsU, varsV, varsL>>
OthersL == <<varsW, varsR, varsB, varsS, varsU, varsV, varsX>>

vars == <<varsW, varsR, varsB, varsS, varsU, varsV, varsX, varsL>>

\* ========================================================================
\* Part W: WriteChannel (channel.rs 93-202) and its flush task (53-91)
\* ========================================================================

\* channel.rs:26 MAX_BATCH = 0x3FFFFFFF, scaled down so that segments fill up.
MAX_BATCH == 3
\* the longest encoding a well-sized message has in the model
MaxMsgLen == 2
\* the number of queue_send calls of one run
MaxMsgs == 3
\* channel.rs:56 mpsc::channel(3), scaled down: the channel holds this many
\* messages plus one (the one sender's own slot)
FlushChanBuffer == 1

\* The bytes of message m when its encoding is len long: <<m, 1>> .. <<m, len>>.
Encoding(m, len) == [i \in 1..len |-> <<m, i>>]

\* Lengths encoded_len may report: every fitting length and one oversize.
MsgLens == (1..MaxMsgLen) \cup {MAX_BATCH + 1}

InitW ==
    /\ buf = <<>>
    /\ boundries = <<>>
    /\ to_flush = <<>>
    /\ wctx = FALSE
    /\ walive = TRUE
    /\ wire = <<>>
    /\ handed = <<>>
    /\ queued = <<>>
    /\ nmsg = 0
    /\ wpc = "idle"
    /\ wlast = [op |-> "new", res |-> "ok", buf |-> <<>>, boundries |-> <<>>]
    /\ wclean = TRUE
    /\ wsetat = -1

\* usize arithmetic, with 2^64 scaled down to a modulus above every length of
\* the model
USizeMod == 64

USub(a, b) == (a - b + USizeMod) % USizeMod

\* The subtractions of queue_send's segment rule underflow (channel.rs 123-125):
\* the buffer is shorter than the last boundary or than the boundaries' sum.
\* A build with overflow checks panics there, a build without them wraps.
Underflows(b, bnd) ==
    /\ bnd # <<>>
    /\ \/ Len(b) < bnd[Len(bnd)]
       \/ Len(b) < SumSeq(bnd) % USizeMod

\* queue_send's segment rule (channel.rs 122-126): the boundary list after it.
PushBoundry(b, bnd, len) ==
    LET buf_len == Len(b)
        last == IF bnd = <<>> THEN 0 ELSE bnd[Len(bnd)]
    IN IF (USub(buf_len, last) + len) % USizeMod > MAX_BATCH
       THEN Append(bnd, USub(buf_len, SumSeq(bnd) % USizeMod))
       ELSE bnd

\* The rollback of a failed encode (channel.rs 129-133): resize to buf_len, pop.
RollbackBoundries(bnd) == IF bnd = <<>> THEN bnd ELSE Front(bnd)

\* queue_send (channel.rs 114-135) on buffer b and boundary list bnd, for message
\* m whose encoded_len is len; encOk says whether encode succeeds, and a failing
\* encode has written `part` bytes before it fails; checked says whether the
\* build checks arithmetic overflow.
QueueSendFn(b, bnd, m, len, encOk, part, checked) ==
    IF len > MAX_BATCH
    THEN [res |-> "err", buf |-> b, boundries |-> bnd]
    ELSE IF checked /\ Underflows(b, bnd)
    THEN [res |-> "panic", buf |-> b, boundries |-> bnd]
    ELSE LET buf_len == Len(b)
             bnd1 == PushBoundry(b, bnd, len)
         IN IF encOk
            THEN [res |-> "ok", buf |-> b \o Encoding(m, len), boundries |-> bnd1]
            ELSE [res |-> "err",
                  buf |-> SubSeq(b \o Encoding(m, part), 1, buf_len),
                  boundries |-> RollbackBoundries(bnd1)]

\* The flush task's channel takes a message: futures mpsc parks the sender once
\* the queue holds more than `buffer` messages (channel.rs 56, 174, 180).
ChanHasRoom(q) == Len(q) <= FlushChanBuffer

\* A full channel whose chunk is not put back.
PutBackDropped(chunk, rest) == rest

\* try_flush finds the channel full (channel.rs 180-186): the chunk is joined
\* with the rest of the buffer again.
PutBack(chunk, rest) == chunk \o rest

\* try_flush (channel.rs 170-194): hand chunk after chunk to the flush task
\* until the buffer is empty ("true"), the channel is full ("false": the chunk is
\* put back) or closed ("err").  split_to panics past the end of the buffer.
RECURSIVE TryFlushFn(_, _, _, _)
TryFlushFn(b, bnd, q, alive) ==
    IF b = <<>>
    THEN [res |-> "true", buf |-> b, boundries |-> bnd, q |-> q]
    ELSE LET boundry == IF bnd = <<>> THEN Len(b) ELSE bnd[1]
             chunk == SubSeq(b, 1, boundry)
             rest == SubSeq(b, boundry + 1, Len(b))
         IN IF boundry > Len(b)
            THEN [res |-> "panic", buf |-> b, boundries |-> bnd, q |-> q]
            ELSE IF ~alive
            THEN [res |-> "err", buf |-> rest, boundries |-> bnd, q |-> q]
            ELSE IF ~ChanHasRoom(q)
            THEN [res |-> "false", buf |-> PutBack(chunk, rest), boundries |-> bnd,
                  q |-> q]
            ELSE TryFlushFn(rest, IF bnd = <<>> THEN bnd ELSE Tail(bnd),
                            Append(q, [kind |-> "Flush", data |-> chunk]), alive)

\* The chunks a call added to the channel.
NewChunks(q0, q1) == [i \in 1..(Len(q1) - Len(q0)) |-> q1[Len(q0) + i].data]

WCall(op, res) == [op |-> op, res |-> res, buf |-> buf, boundries |-> boundries]

\* WriteChannel::queue_send (channel.rs 114-135)
QueueSend(len, encOk, part, checked) ==
    /\ wpc = "idle"
    /\ nmsg < MaxMsgs
    /\ LET m == nmsg + 1
           r == QueueSendFn(buf, boundries, m, len, encOk, part, checked)
       IN /\ buf' = r.buf
          /\ boundries' = r.boundries
          /\ queued' = IF r.res = "ok" THEN Append(queued, Encoding(m, len)) ELSE queued
          /\ wlast' = WCall("queue_send", r.res)
    /\ nmsg' = nmsg + 1
    /\ UNCHANGED <<to_flush, wctx, walive, wire, handed, wpc, wclean>>
    /\ UNCHANGED wsetat
    /\ UNCHANGED OthersW

\* One run of try_flush and what it leaves, shared by try_flush and flush.
RunTryFlush(op, blocks) ==
    LET r == TryFlushFn(buf, boundries, to_flush, walive)
    IN /\ buf' = r.buf
       /\ boundries' = r.boundries
       /\ to_flush' = r.q
       /\ handed' = handed \o NewChunks(to_flush, r.q)
       /\ wpc' = IF blocks /\ r.res = "false" THEN "flushing" ELSE "idle"
       /\ wlast' = WCall(op, r.res)

\* WriteChannel::try_flush (channel.rs 170-194)
TryFlush ==
    /\ wpc = "idle"
    /\ RunTryFlush("try_flush", FALSE)
    /\ UNCHANGED <<wctx, walive, wire, queued, nmsg, wclean>>
    /\ UNCHANGED wsetat
    /\ UNCHANGED OthersW

\* WriteChannel::flush (channel.rs 157-165): the first try_flush of the loop
Flush ==
    /\ wpc = "idle"
    /\ RunTryFlush("flush", TRUE)
    /\ UNCHANGED <<wctx, walive, wire, queued, nmsg, wclean>>
    /\ UNCHANGED wsetat
    /\ UNCHANGED OthersW

\* WriteChannel::flush: poll_ready returned (room, or Err when the task is gone)
FlushResume ==
    /\ wpc = "flushing"
    /\ \/ /\ walive
          /\ ChanHasRoom(to_flush)
          /\ RunTryFlush("flush", TRUE)
       \/ /\ ~walive
          /\ wpc' = "idle"
          /\ wlast' = WCall("flush", "err")
          /\ UNCHANGED <<buf, boundries, to_flush, handed>>
    /\ UNCHANGED <<wctx, walive, wire, queued, nmsg, wclean>>
    /\ UNCHANGED wsetat
    /\ UNCHANGED OthersW

\* WriteChannel::clear (channel.rs 138-141)
Clear ==
    /\ wpc = "idle"
    /\ buf' = <<>>
    /\ boundries' = <<>>
    /\ wlast' = WCall("clear", "ok")
    /\ wclean' = FALSE
    /\ UNCHANGED <<to_flush, wctx, walive, wire, handed, queued, nmsg, wpc>>
    /\ UNCHANGED wsetat
    /\ UNCHANGED OthersW

\* WriteChannel::set_ctx (channel.rs 108-110): send(SetCtx) once there is room
WSetCtx ==
    /\ wpc = "idle"
    /\ walive
    /\ ChanHasRoom(to_flush)
    /\ \A i \in DOMAIN to_flush : to_flush[i].kind # "SetCtx"
    /\ ~wctx
    /\ to_flush' = Append(to_flush, [kind |-> "SetCtx", data |-> <<>>])
    /\ wlast' = WCall("set_ctx", "ok")
    /\ wsetat' = Len(handed)
    /\ UNCHANGED <<buf, boundries, wctx, walive, wire, handed, queued, nmsg, wpc,
                   wclean>>
    /\ UNCHANGED OthersW

\* The width of the frame header (u32), scaled down with MAX_BATCH
HdrBits == 4
\* channel.rs:27 ENC_MASK = 0x80000000, the header's top bit
ENC_MASK == 2^(HdrBits - 1)
\* channel.rs:25 LEN_MASK = 0x7FFFFFFF, the header's other bits
LEN_MASK == ENC_MASK - 1

\* flush_buf's header (channel.rs 40-45): `remaining() as u32`, or-ed with
\* ENC_MASK for a sealed frame
Header(encrypted, n) ==
    LET len == n % (2^HdrBits)
    IN IF encrypted /\ len < ENC_MASK THEN len + ENC_MASK ELSE len

\* The frame flush_buf writes for one payload: the header, then the payload
Frame(encrypted, data) ==
    [enc |-> encrypted, hdr |-> Header(encrypted, Len(data)), payload |-> data]

\* The most bytes wrap_iov adds to a segment in the model
MaxWrapOverhead == 1

\* A context that leaves the segment as it is.
WrapNothing(data, ov) == data

\* ctx.wrap_iov and the chain of its four parts (channel.rs 72-81): the
\* segment's bytes sealed in place, with ov bytes of header, padding and trailer
\* around them.  Byte <<m, i>> sealed is <<m, -i>>; <<0, k>> is an added byte.
Wrap(data, ov) ==
    [k \in 1..ov |-> <<0, k>>] \o [i \in DOMAIN data |-> <<data[i][1], -data[i][2]>>]

\* flush_task (channel.rs 62-87): take one message from the channel; a segment
\* is written as it is without a context and wrapped with one
FlushTaskStep(ov) ==
    /\ walive
    /\ to_flush # <<>>
    /\ LET m == Head(to_flush)
       IN IF m.kind = "SetCtx"
          THEN /\ ov = 0
               /\ wctx' = TRUE
               /\ wire' = wire
          ELSE /\ wctx' = wctx
               /\ ~wctx => ov = 0
               /\ wire' = Append(wire, IF wctx THEN Frame(TRUE, Wrap(m.data, ov))
                                               ELSE Frame(FALSE, m.data))
    /\ to_flush' = Tail(to_flush)
    /\ UNCHANGED <<buf, boundries, walive, handed, queued, nmsg, wpc, wlast, wclean>>
    /\ UNCHANGED wsetat
    /\ UNCHANGED OthersW

\* flush_task: wrap_iov or the socket write fails (try_cf! breaks the loop), the
\* receiver is dropped with what it still held
FlushTaskFail ==
    /\ walive
    /\ to_flush # <<>>
    /\ Head(to_flush).kind = "Flush"
    /\ walive' = FALSE
    /\ to_flush' = <<>>
    /\ UNCHANGED <<buf, boundries, wctx, wire, handed, queued, nmsg, wpc, wlast,
                   wclean>>
    /\ UNCHANGED wsetat
    /\ UNCHANGED OthersW

\* The builds that differ on the next queue_send: with and without overflow
\* checks where a subtraction underflows, one otherwise.
Builds == IF Underflows(buf, boundries) THEN BOOLEAN ELSE {TRUE}

NextW ==
    \/ \E len \in MsgLens, ck \in Builds : QueueSend(len, TRUE, len, ck)
    \/ \E len \in MsgLens, ck \in Builds :
          \E part \in {0, len - 1} : QueueSend(len, FALSE, part, ck)
    \/ TryFlush
    \/ Flush
    \/ FlushResume
    \/ Clear
    \/ WSetCtx
    \/ \E ov \in 0..MaxWrapOverhead : FlushTaskStep(ov)
    \/ FlushTaskFail

\* C10: whenever queue_send returns an error, the buffer and the boundary list
\* are what they were before the call.
C10_QueueSendErrorRollsBack ==
    (wlast.op = "queue_send" /\ wlast.res = "err")
        => (buf = wlast.buf /\ boundries = wlast.boundries)


C22_FrameHeaders ==
    \A i \in DOMAIN wire :
        /\ Len(wire[i].payload) <= MAX_BATCH
        /\ wire[i].hdr % (LEN_MASK + 1) = Len(wire[i].payload)
        /\ (wire[i].hdr >= ENC_MASK) <=> wire[i].enc

\* The segments still in the flush task's channel
FlushesIn(q) == Cardinality({i \in DOMAIN q : q[i].kind = "Flush"})

\* C24: the frames on the socket are the segments handed to the flush task, in
\* the order they were handed over, one frame per segment; a segment handed
\* over before set_ctx is one unencrypted frame holding the segment, a segment
\* handed over after set_ctx is one sealed frame with the encrypted flag set,
\* whose payload is the wrapped segment and none of its clear bytes.
C24_FramesInOrderSealedAfterCtx ==
    /\ Len(wire) <= Len(handed)
    /\ walive => Len(wire) + FlushesIn(to_flush) = Len(handed)
    /\ \A i \in DOMAIN wire :
          IF wsetat >= 0 /\ i > wsetat
          THEN /\ wire[i].enc
               /\ wire[i].hdr >= ENC_MASK
               /\ \E ov \in 0..MaxWrapOverhead : wire[i].payload = Wrap(handed[i], ov)
               /\ \A k \in DOMAIN wire[i].payload :
                      wire[i].payload[k] \notin Range(handed[i])
          ELSE /\ ~wire[i].enc
               /\ wire[i].payload = handed[i]

\* C24 witness: a segment handed over before set_ctx and a segment handed over
\* after it have both been written, the first in clear and the second sealed.
C24_Witness ==
    /\ wsetat >= 1
    /\ Len(wire) > wsetat
    /\ ~wire[wsetat].enc
    /\ wire[wsetat + 1].enc

\* the length of the accepted message a byte belongs to
MsgLenOf(b) == Len(CHOOSE e \in Range(queued) : e[1][1] = b[1])

\* a run of bytes that starts at a message's first byte, ends at a message's
\* last byte, and passes from one message to the next only at such places
WholeMessages(chunk) ==
    /\ chunk # <<>>
    /\ \A i \in DOMAIN chunk : \E e \in Range(queued) : e[1][1] = chunk[i][1]
    /\ chunk[1][2] = 1
    /\ chunk[Len(chunk)][2] = MsgLenOf(chunk[Len(chunk)])
    /\ \A i \in 1..(Len(chunk) - 1) :
          \/ chunk[i + 1] = <<chunk[i][1], chunk[i][2] + 1>>
          \/ chunk[i][2] = MsgLenOf(chunk[i]) /\ chunk[i + 1][2] = 1

\* C40 as stated: after any calls of queue_send, try_flush, flush and clear,
\* every recorded boundary is positive, the boundaries sum to at most the
\* buffer length, and every chunk handed to the flush task is non-empty, at
\* most MAX_BATCH bytes long and made of whole messages.
C40_BoundariesAndChunksWellFormed ==
    /\ \A i \in DOMAIN boundries : boundries[i] > 0
    /\ SumSeq(boundries) <= Len(buf)
    /\ \A i \in DOMAIN handed :
          /\ Len(handed[i]) \in 1..MAX_BATCH
          /\ WholeMessages(handed[i])

\* ========================================================================
\* Part R: read_task (channel.rs 204-261) and ReadChannel (263-315)
\* ========================================================================

\* the number of frames that arrive in one run
MaxFrames == 4
\* channel.rs:209 mpsc::channel(3), scaled down (plus the one sender's slot)
ReadChanBuffer == 1

InitR ==
    /\ rbuf = <<>>
    /\ rctx = FALSE
    /\ set_ctx = "unset"
    /\ incoming = <<>>
    /\ received = <<>>
    /\ rstate = "running"
    /\ nframe = 0

\* The header of channel.rs 216-223, read back: a frame is flagged encrypted
\* exactly when its header is above LEN_MASK.  A frame of the model carries the
\* flag, its number, and whether ReadChannel::set_ctx had been called when it
\* arrived.
InFrame(n, encrypted, afterSetCtx) ==
    [id |-> n, enc |-> encrypted, after_set_ctx |-> afterSetCtx]

\* A whole frame arrives on the socket (soc.read_buf, channel.rs 251).
RArrive(encrypted) ==
    /\ rstate = "running"
    /\ nframe < MaxFrames
    /\ nframe' = nframe + 1
    /\ rbuf' = Append(rbuf, InFrame(nframe + 1, encrypted, set_ctx # "unset"))
    /\ UNCHANGED <<rctx, set_ctx, incoming, received, rstate>>
    /\ UNCHANGED OthersR

\* ReadChannel::set_ctx (channel.rs 284-286): may be called once.
RSetCtx ==
    /\ set_ctx = "unset"
    /\ set_ctx' = "sent"
    /\ UNCHANGED <<rbuf, rctx, incoming, received, rstate, nframe>>
    /\ UNCHANGED OthersR

\* A read task that does not wait for the context: a sealed frame goes
\* downstream as it came.
ReadDecisionNoCtx(f, ctx, oneshot, room) ==
    IF ~f.enc /\ ctx THEN "fail_enc"
    ELSE IF room THEN "deliver" ELSE "wait"

\* What read_task does with the frame at the head of its buffer (channel.rs
\* 224-244), given its ctx, the oneshot and whether the channel has room:
\*   "fail_enc"  break with "encryption is required"
\*   "deliver"   send the payload downstream
\*   "take_ctx"  receive the context from the oneshot (then handle the frame)
\*   "wait"      suspended (on the oneshot, or on the full channel)
ReadDecision(f, ctx, oneshot, room) ==
    IF ~f.enc
    THEN IF ctx THEN "fail_enc"
         ELSE IF room THEN "deliver" ELSE "wait"
    ELSE IF ~ctx
         THEN IF oneshot = "sent" THEN "take_ctx" ELSE "wait"
         ELSE IF room THEN "deliver" ELSE "wait"

IncomingHasRoom == Len(incoming) <= ReadChanBuffer

\* read_task: one frame of the inner while loop (channel.rs 215-245)
ReadTaskStep ==
    /\ rstate = "running"
    /\ rbuf # <<>>
    /\ LET f == Head(rbuf)
           d == ReadDecision(f, rctx, set_ctx, IncomingHasRoom)
       IN /\ d # "wait"
          /\ CASE d = "fail_enc" ->
                    /\ rstate' = "encryption is required"
                    /\ UNCHANGED <<rbuf, rctx, set_ctx, incoming>>
               [] d = "take_ctx" ->
                    /\ rctx' = TRUE
                    /\ set_ctx' = "taken"
                    /\ UNCHANGED <<rbuf, incoming, rstate>>
               [] d = "deliver" ->
                    /\ incoming' = Append(incoming, f)
                    /\ rbuf' = Tail(rbuf)
                    /\ UNCHANGED <<rctx, set_ctx, rstate>>
    /\ UNCHANGED <<received, nframe>>
    /\ UNCHANGED OthersR

\* read_task: unwrap_iov fails on a sealed frame (channel.rs 242)
ReadTaskUnwrapFail ==
    /\ rstate = "running"
    /\ rbuf # <<>>
    /\ Head(rbuf).enc
    /\ rctx
    /\ rstate' = "unwrap failed"
    /\ UNCHANGED <<rbuf, rctx, set_ctx, incoming, received, nframe>>
    /\ UNCHANGED OthersR

\* read_task: the socket reports EOF or an error (channel.rs 251-255)
ReadTaskEof ==
    /\ rstate = "running"
    /\ rbuf = <<>>
    /\ rstate' = "EOF"
    /\ UNCHANGED <<rbuf, rctx, set_ctx, incoming, received, nframe>>
    /\ UNCHANGED OthersR

\* ReadChannel::fill_buffer (channel.rs 289-296): the next frame, if one is there
FillBuffer ==
    /\ incoming # <<>>
    /\ received' = Append(received, Head(incoming))
    /\ incoming' = Tail(incoming)
    /\ UNCHANGED <<rbuf, rctx, set_ctx, rstate, nframe>>
    /\ UNCHANGED OthersR

NextR ==
    \/ \E e \in BOOLEAN : RArrive(e)
    \/ RSetCtx
    \/ ReadTaskStep
    \/ ReadTaskUnwrapFail
    \/ ReadTaskEof
    \/ FillBuffer

\* C4: once set_ctx has been called on the read channel, no unencrypted frame
\* that arrives afterwards is delivered to the caller.
C4_NoPlainFrameAfterSetCtx ==
    \A f \in Range(incoming) \cup Range(received) : ~(~f.enc /\ f.after_set_ctx)

C35_BatchesAfterHelloSealed ==
    [][(set_ctx # "unset" /\ incoming # <<>> /\ received' = Append(received, Head(incoming)))
          => Head(incoming).enc]_vars

\* Channel (channel.rs 317-378): a ReadChannel and a WriteChannel on the two
\* halves of one socket.  Both tasks run; the socket's two directions fail
\* independently or together, as the peer and the network decide.
NextC ==
    \/ \E len \in 1..MaxMsgLen : QueueSend(len, TRUE, len, TRUE)
    \/ Flush
    \/ FlushResume
    \/ FlushTaskStep(0)
    \/ FlushTaskFail
    \/ RArrive(FALSE)
    \/ ReadTaskStep
    \/ ReadTaskEof
    \/ FillBuffer

\* C25: after a socket error or EOF was hit by either task of a channel both
\* tasks have terminated and the calls fail: once the read task has ended with
\* EOF a flush of a non-empty buffer hands nothing to the flush task, and once
\* the flush task has ended the read task sends no frame downstream.
C25_ErrorEndsBothTasks ==
    [][/\ (rstate = "EOF" /\ buf # <<>>) => handed' = handed
       /\ ~walive => Len(incoming') <= Len(incoming)]_vars

\* ========================================================================
\* Part B: client_loop_write, the incoming batch (resolver_server.rs 136-190)
\* ========================================================================

\* the longest batch a writer sends
MaxBatchLen == 4

PublishKinds == {"Publish", "PublishDefault", "PublishWithFlags", "PublishDefaultWithFlags"}
UnpublishKinds == {"Unpublish", "UnpublishDefault"}

ToWrite(kind, path) == [kind |-> kind, path |-> path]
Heartbeat == ToWrite("Heartbeat", None)
ClearMsg == ToWrite("Clear", None)

\* The ToWrite messages writers send in the model.
BatchMsgs ==
    { ToWrite("Publish", "a"), ToWrite("Publish", "b"), ToWrite("PublishDefault", "a"),
      ToWrite("PublishWithFlags", "b"), ToWrite("PublishDefaultWithFlags", "a"),
      ToWrite("Unpublish", "a"), ToWrite("UnpublishDefault", "b"),
      ClearMsg, Heartbeat }

Batches == UNION { [1..n -> BatchMsgs] : n \in 1..MaxBatchLen }

InitB ==
    /\ bpc = "select"
    /\ batch = <<>>
    /\ act = FALSE
    /\ acks_queued = <<>>
    /\ acks_flushed = <<>>
    /\ bstore = {}
    /\ borig = <<>>
    /\ bproc = 0
    /\ bev = "none"

\* batch.iter().enumerate().find(|m| m == Clear) (resolver_server.rs 149-150):
\* the position of the first Clear, 0 when there is none.
RECURSIVE FindClear(_)
FindClear(b) ==
    IF b = <<>> THEN 0
    ELSE IF Head(b).kind = "Clear" THEN 1
    ELSE LET r == FindClear(Tail(b)) IN IF r = 0 THEN 0 ELSE r + 1

\* A loop that acks every message before the Clear with Unpublished.
SegmentAckAllUnpublished(m) ==
    IF m.kind \in PublishKinds \cup UnpublishKinds THEN <<"Unpublished">> ELSE <<>>

\* The ack the clear-splitting loop queues for one message that is not the
\* Clear (resolver_server.rs 155-165): none for a Heartbeat.
SegmentAck(m) ==
    IF m.kind \in PublishKinds THEN <<"Published">>
    ELSE IF m.kind \in UnpublishKinds THEN <<"Unpublished">>
    ELSE <<>>

\* for m in batch.drain(..) (resolver_server.rs 154-165) over the messages that
\* precede the Clear: their acks, in order; the store is not touched.
RECURSIVE SegmentAcks(_)
SegmentAcks(seg) ==
    IF seg = <<>> THEN <<>> ELSE SegmentAck(Head(seg)) \o SegmentAcks(Tail(seg))

\* The ack queued for the Clear itself (resolver_server.rs 171).
ClearAck == "Unpublished"

\* A handle_clear that leaves the registrations in place.
HandleClearKeeps(st) == st

\* store.handle_clear: removes every registration of write_addr.
HandleClear(st) == {}

\* store.handle_batch_write on the messages left after the last Clear: each
\* publish registers its path and is acked Published, each unpublish removes it
\* and is acked Unpublished, a Heartbeat does nothing.
RECURSIVE HandleBatchWrite(_, _)
HandleBatchWrite(st, msgs) ==
    IF msgs = <<>> THEN [store |-> st, acks |-> <<>>]
    ELSE LET m == Head(msgs)
             st1 == IF m.kind \in PublishKinds THEN st \cup {m.path}
                    ELSE IF m.kind \in UnpublishKinds THEN st \ {m.path}
                    ELSE st
             a == IF m.kind \in PublishKinds THEN <<"Published">>
                  ELSE IF m.kind \in UnpublishKinds THEN <<"Unpublished">>
                  ELSE <<>>
             r == HandleBatchWrite(st1, Tail(msgs))
         IN [store |-> r.store, acks |-> a \o r.acks]

\* A session that takes a singleton Heartbeat for no activity.
BRecvBatchHeartbeatIdle(b) ==
    /\ act' = (act \/ ~(Len(b) = 1 /\ b[1] = Heartbeat))
    /\ borig' = b
    /\ acks_queued' = <<>>
    /\ acks_flushed' = <<>>
    /\ IF Len(b) = 1 /\ b[1] = Heartbeat
       THEN /\ bpc' = "handled"
            /\ batch' = <<>>
            /\ bproc' = 1
       ELSE /\ bpc' = "split"
            /\ batch' = b
            /\ bproc' = 0
    /\ bev' = IF Len(b) = 1 /\ b[1] = Heartbeat THEN "hb" ELSE "batch"
    /\ UNCHANGED bstore
    /\ UNCHANGED OthersB

\* receive_batch returned Ok (resolver_server.rs 143-148): a singleton
\* Heartbeat only sets act.
BRecvBatch(b) ==
    /\ act' = TRUE
    /\ borig' = b
    /\ acks_queued' = <<>>
    /\ acks_flushed' = <<>>
    /\ IF Len(b) = 1 /\ b[1] = Heartbeat
       THEN /\ bpc' = "handled"
            /\ batch' = <<>>
            /\ bproc' = 1
       ELSE /\ bpc' = "split"
            /\ batch' = b
            /\ bproc' = 0
    /\ bev' = IF Len(b) = 1 /\ b[1] = Heartbeat THEN "hb" ELSE "batch"
    /\ UNCHANGED bstore
    /\ UNCHANGED OthersB

BRecv ==
    /\ bpc = "select"
    /\ \E b \in Batches : BRecvBatch(b)

\* The while loop finds a Clear (resolver_server.rs 149-165): the messages before
\* it are acked, then handle_clear is awaited.
BSplitAtClear ==
    /\ bpc = "split"
    /\ FindClear(batch) > 0
    /\ LET i == FindClear(batch)
       IN /\ acks_queued' = acks_queued \o SegmentAcks(SubSeq(batch, 1, i - 1))
          /\ bproc' = bproc + (i - 1)
          /\ batch' = SubSeq(batch, i + 1, Len(batch))
    /\ bpc' = "clear"
    /\ UNCHANGED <<act, acks_flushed, bstore, borig>>
    /\ UNCHANGED bev
    /\ UNCHANGED OthersB

\* ToWrite::Clear (resolver_server.rs 166-172): handle_clear returned Ok
BHandleClear ==
    /\ bpc = "clear"
    /\ bstore' = HandleClear(bstore)
    /\ acks_queued' = Append(acks_queued, ClearAck)
    /\ bproc' = bproc + 1
    /\ bpc' = "flush"
    /\ UNCHANGED <<batch, act, acks_flushed, borig>>
    /\ UNCHANGED bev
    /\ UNCHANGED OthersB

\* c.flush().await after the segment (resolver_server.rs 175-176)
BFlush ==
    /\ bpc = "flush"
    /\ acks_flushed' = acks_flushed \o acks_queued
    /\ acks_queued' = <<>>
    /\ bpc' = "split"
    /\ UNCHANGED <<batch, act, bstore, borig, bproc>>
    /\ UNCHANGED bev
    /\ UNCHANGED OthersB

\* No Clear is left: handle_batch_write on the rest (resolver_server.rs 178-183),
\* which queues the acks and flushes them.
BHandleBatchWrite ==
    /\ bpc = "split"
    /\ FindClear(batch) = 0
    /\ LET r == HandleBatchWrite(bstore, batch)
       IN /\ bstore' = r.store
          /\ acks_flushed' = acks_flushed \o acks_queued \o r.acks
    /\ acks_queued' = <<>>
    /\ bproc' = bproc + Len(batch)
    /\ batch' = <<>>
    /\ bpc' = "handled"
    /\ UNCHANGED <<act, borig>>
    /\ UNCHANGED bev
    /\ UNCHANGED OthersB

\* The match arm is over (continue 'main, resolver_server.rs 146, 189-191): back
\* to the select, the batch vector is empty again.
BLoop ==
    /\ bpc = "handled"
    /\ bpc' = "select"
    /\ borig' = <<>>
    /\ bproc' = 0
    /\ acks_queued' = <<>>
    /\ acks_flushed' = <<>>
    /\ UNCHANGED <<batch, act, bstore>>
    /\ UNCHANGED bev
    /\ UNCHANGED OthersB

\* handle_batch_write returned Err (resolver_server.rs 184-188): con = None
BHandleBatchWriteErr ==
    /\ bpc = "split"
    /\ FindClear(batch) = 0
    /\ bpc' = "closed"
    /\ UNCHANGED <<batch, act, acks_queued, acks_flushed, bstore, borig, bproc>>
    /\ UNCHANGED bev
    /\ UNCHANGED OthersB

\* handle_clear, queue_send or flush returned Err: `?` ends the session
\* (resolver_server.rs 161-175)
BFail ==
    /\ bpc \in {"clear", "flush"}
    /\ bpc' = "failed"
    /\ UNCHANGED <<batch, act, acks_queued, acks_flushed, bstore, borig, bproc>>
    /\ UNCHANGED bev
    /\ UNCHANGED OthersB

\* The tick arm of the select (resolver_server.rs 109-134): act is reset, or
\* with act false the session is cleaned up: handle_clear empties the store
\* for write_addr and the session ends with "write client timed out", or
\* handle_clear fails and `?` ends it.
BTick ==
    /\ bpc \in {"select", "closed"}
    /\ IF act
       THEN /\ act' = FALSE
            /\ UNCHANGED <<bpc, bstore>>
       ELSE /\ UNCHANGED act
            /\ \/ bpc' = "timeout" /\ bstore' = HandleClear(bstore)
               \/ bpc' = "failed" /\ UNCHANGED bstore
    /\ bev' = "tick"
    /\ UNCHANGED <<batch, acks_queued, acks_flushed, borig, bproc>>
    /\ UNCHANGED OthersB

NextB ==
    \/ BRecv
    \/ BSplitAtClear
    \/ BHandleClear
    \/ BFlush
    \/ BHandleBatchWrite
    \/ BHandleBatchWriteErr
    \/ BFail
    \/ BLoop
    \/ BTick

\* The acks the claim expects for a sequence of requests: Published for each
\* publish variant, Unpublished for each unpublish variant and for Clear.
RECURSIVE ExpectedAcks(_)
ExpectedAcks(reqs) ==
    IF reqs = <<>> THEN <<>>
    ELSE (CASE Head(reqs).kind \in PublishKinds -> <<"Published">>
            [] Head(reqs).kind \in UnpublishKinds \cup {"Clear"} -> <<"Unpublished">>
            [] OTHER -> <<>>) \o ExpectedAcks(Tail(reqs))

\* C6: the acks of a batch are, in order, exactly one per Publish*/Unpublish*/Clear
\* request handled so far (all of the batch once it is done), and the acks up to
\* and including a Clear are flushed before any later message is handled.
C6_AcksInRequestOrder ==
    /\ acks_flushed \o acks_queued = ExpectedAcks(SubSeq(borig, 1, bproc))
    /\ (bpc = "handled" => bproc = Len(borig))
    /\ \A i \in 1..bproc :
          (borig[i].kind = "Clear" /\ bproc > i)
              => Len(acks_flushed) >= Len(ExpectedAcks(SubSeq(borig, 1, i)))

\* C6 witness: the batch [Publish a, Publish b, Clear, Publish a] has been
\* handled and acked Published, Published, Unpublished, Published.
C6_Witness ==
    /\ bpc = "handled"
    /\ borig = <<ToWrite("Publish", "a"), ToWrite("Publish", "b"), ClearMsg,
                 ToWrite("Publish", "a")>>
    /\ bproc = 4
    /\ acks_flushed = <<"Published", "Published", "Unpublished", "Published">>
    /\ bstore = {"a"}

LastClear(b) ==
    IF \E i \in DOMAIN b : b[i].kind = "Clear"
    THEN CHOOSE i \in DOMAIN b :
            /\ b[i].kind = "Clear"
            /\ \A j \in DOMAIN b : b[j].kind = "Clear" => j <= i
    ELSE 0

\* Path p is registered by the messages msgs: one of them publishes it and none
\* of those that follow unpublishes it.
RegisteredBy(msgs, p) ==
    \E i \in DOMAIN msgs :
        /\ msgs[i].kind \in PublishKinds
        /\ msgs[i].path = p
        /\ \A j \in (i + 1)..Len(msgs) :
              ~(msgs[j].kind \in UnpublishKinds /\ msgs[j].path = p)

\* C30: when a batch with one or more Clear messages has been processed, the
\* store holds for write_addr exactly the paths registered by the messages that
\* follow the last Clear of the batch, whatever it held before the batch and
\* whatever the batch published before that Clear.
C30_StoreAfterLastClear ==
    (bpc = "handled" /\ LastClear(borig) > 0)
        => bstore = {p \in {"a", "b"} :
                        RegisteredBy(SubSeq(borig, LastClear(borig) + 1, Len(borig)), p)}

\* C30 witness: the batch [Publish a, Clear, Publish b] has been processed and
\* the store holds "b" and not "a".
C30_Witness ==
    /\ bpc = "handled"
    /\ borig = <<ToWrite("Publish", "a"), ClearMsg, ToWrite("Publish", "b")>>
    /\ bstore = {"b"}

\* ========================================================================
\* Part S: hello_client_write (resolver_server.rs 195-363) and the stop and
\* TTL arms of client_loop_write (76-135), for the sessions of one write_addr.
\* Time is discrete; it does not pass while a session is between two await
\* points (states "reg" and "tick") or has a stop to take.
\* ========================================================================

\* Sessions that connect for the address, in the order 1, 2, ...
NSess == 2

\* cfg.writer_ttl, in time units
Ttl == 2

\* Width of the session secret in bits (u128 in the source)
SecretBits == 1

\* cfg.hello_timeout, in time units
HelloTimeout == 1

Sess == 1..NSess

\* sidle stops counting here
IdleCap == 2 * Ttl + 1

Secrets == 0..(2^SecretBits - 1)

Salts == {0}

AuthKinds == {"Anonymous", "Reuse", "Initiate"}

NoEntry == [kind |-> "None", stop |-> 0, waiters |-> {}]

Running(s) == [kind |-> "Running", stop |-> s, waiters |-> {}]

CleaningUp(w) == [kind |-> "CleaningUp", stop |-> 0, waiters |-> w]

NoReply == [variant |-> "none"]

InitS ==
    /\ spc = [s \in Sess |-> "idle"]
    /\ sauth = [s \in Sess |-> "Anonymous"]
    /\ ttl_expired = [s \in Sess |-> FALSE]
    /\ ssecret = [s \in Sess |-> 0]
    /\ sreply = [s \in Sess |-> NoReply]
    /\ clinfos = NoEntry
    /\ rx_stop = [s \in Sess |-> FALSE]
    /\ secstore = 0
    /\ spublished = FALSE
    /\ sact = [s \in Sess |-> FALSE]
    /\ scon = [s \in Sess |-> FALSE]
    /\ ssince = [s \in Sess |-> 0]
    /\ sidle = [s \in Sess |-> 0]
    /\ lastReg = 0
    /\ shello = [s \in Sess |-> 0]

\* !secret at the width of the secret (resolver_server.rs 318)
NotSecret(x) == (2^SecretBits - 1) - x

\* utils::make_sha3_token(Some(salt), &[&(!secret).to_be_bytes()]) without its
\* salt prefix (resolver_server.rs 316-320): a hash, one value per input.
ExpectedToken(salt, secret) == <<"sha3", salt, NotSecret(secret)>>

\* The token a peer that believes the secret is g puts in its reply; short
\* tokens have fewer than 8 bytes.
ReplyToken(short, salt, g) ==
    [variant |-> "ResolverAuthenticate", short |-> short, salt |-> salt,
     rest |-> ExpectedToken(salt, g)]

\* What the peer at write_addr may answer to ResolverAuthenticate.
OwnershipReplies ==
    {[variant |-> "Anonymous"], [variant |-> "Token"]}
        \cup {ReplyToken(sh, sa, g) : sh \in BOOLEAN, sa \in Salts, g \in Secrets}

\* A match on the reply that checks the token's length and not its hash.
OwnershipCheckLengthOnly(reply, secret) ==
    IF reply.variant \in {"Anonymous", "Token"} THEN "unexpected response"
    ELSE IF reply.short THEN "buffer short"
    ELSE "ok"

\* The match on the reply (resolver_server.rs 307-329): "ok" when the session
\* goes on to secstore.store, else the bail! that ends it.
OwnershipCheck(reply, secret) ==
    IF reply.variant \in {"Anonymous", "Token"} THEN "unexpected response"
    ELSE IF reply.short THEN "buffer short"
    ELSE IF reply.rest # ExpectedToken(reply.salt, secret) THEN "check failed"
    ELSE "ok"

\* The session's task is over: its locals are gone.
SessionEnds(s) ==
    /\ spc' = [spc EXCEPT ![s] = "done"]
    /\ sauth' = [sauth EXCEPT ![s] = "Anonymous"]
    /\ ttl_expired' = [ttl_expired EXCEPT ![s] = FALSE]
    /\ ssecret' = [ssecret EXCEPT ![s] = 0]
    /\ sreply' = [sreply EXCEPT ![s] = NoReply]
    /\ sact' = [sact EXCEPT ![s] = FALSE]
    /\ scon' = [scon EXCEPT ![s] = FALSE]
    /\ ssince' = [ssince EXCEPT ![s] = 0]
    /\ sidle' = [sidle EXCEPT ![s] = 0]
    /\ shello' = [shello EXCEPT ![s] = 0]

\* stop.send(()) to session o; the result is ignored, a session that is over
\* has dropped its receiver.
StopSent(stops, o) ==
    IF o = 0 \/ spc[o] = "done" THEN stops ELSE [stops EXCEPT ![o] = TRUE]

\* hello_client read a ClientHello::WriteOnly and check_addr passed
\* (resolver_server.rs 445-457, 217)
HelloStart(s) ==
    /\ spc[s] = "idle"
    /\ \A t \in Sess : t < s => spc[t] # "idle"
    /\ spc' = [spc EXCEPT ![s] = "check"]
    /\ UNCHANGED <<sauth, ttl_expired, ssecret, sreply, clinfos, rx_stop, secstore,
                   spublished, sact, scon, ssince, sidle, lastReg>>
    /\ UNCHANGED shello
    /\ UNCHANGED OthersS

\* One pass of the ttl_expired loop under the Clinfos lock
\* (resolver_server.rs 218-230)
HelloCheck(s) ==
    /\ spc[s] = "check"
    /\ IF clinfos.kind = "CleaningUp"
       THEN /\ clinfos' = CleaningUp(clinfos.waiters \cup {s})
            /\ spc' = [spc EXCEPT ![s] = "wait"]
            /\ UNCHANGED ttl_expired
       ELSE /\ ttl_expired' = [ttl_expired EXCEPT ![s] = (clinfos.kind = "None")]
            /\ spc' = [spc EXCEPT ![s] = "auth"]
            /\ UNCHANGED clinfos
    /\ UNCHANGED <<sauth, ssecret, sreply, rx_stop, secstore, spublished, sact,
                   scon, ssince, sidle, lastReg>>
    /\ UNCHANGED shello
    /\ UNCHANGED OthersS

\* rx.await returns once the waiter's sender is dropped with the CleaningUp
\* entry (resolver_server.rs 231): the loop goes round.
HelloWake(s) ==
    /\ spc[s] = "wait"
    /\ ~(clinfos.kind = "CleaningUp" /\ s \in clinfos.waiters)
    /\ spc' = [spc EXCEPT ![s] = "check"]
    /\ UNCHANGED <<sauth, ttl_expired, ssecret, sreply, clinfos, rx_stop, secstore,
                   spublished, sact, scon, ssince, sidle, lastReg>>
    /\ shello' = [shello EXCEPT ![s] = 0]
    /\ UNCHANGED OthersS

\* The synchronous head of the match on hello.auth (resolver_server.rs 233-277):
\* auth is hello.auth; Reuse looks the session up in the security store,
\* Initiate draws a secret.  What follows is a chain of awaits that touches
\* nothing shared: up to the send of the hello for Anonymous and Reuse ("send"),
\* up to the answer to ResolverAuthenticate for Initiate ("own").
AuthBegin(s, auth, secret) ==
    /\ spc[s] = "auth"
    /\ secret = 0 \/ auth = "Initiate"
    /\ IF auth = "Reuse" /\ secstore = 0
       THEN /\ SessionEnds(s)
       ELSE /\ spc' = [spc EXCEPT ![s] = IF auth = "Initiate" THEN "own" ELSE "send"]
            /\ sauth' = [sauth EXCEPT ![s] = auth]
            /\ ssecret' = [ssecret EXCEPT ![s] = secret]
            /\ UNCHANGED <<ttl_expired, sreply, sact, scon, ssince, sidle, shello>>
    /\ UNCHANGED <<clinfos, rx_stop, secstore, spublished, lastReg>>
    /\ UNCHANGED OthersS

\* The send of the hello and set_ctx went through (resolver_server.rs 244,
\* 258-259): Anonymous and Reuse are ready to register.
AuthSent(s) ==
    /\ spc[s] = "send"
    /\ spc' = [spc EXCEPT ![s] = "reg"]
    /\ UNCHANGED <<sauth, ttl_expired, ssecret, sreply, clinfos, rx_stop, secstore,
                   spublished, sact, scon, ssince, sidle, lastReg>>
    /\ shello' = [shello EXCEPT ![s] = 0]
    /\ UNCHANGED OthersS

\* The handshake of Initiate went through and the answer to the ownership
\* check arrives (resolver_server.rs 279-329):
\* secstore.store only on the branch that verified the token.
OwnershipReply(s, reply) ==
    /\ spc[s] = "own"
    /\ IF OwnershipCheck(reply, ssecret[s]) = "ok"
       THEN /\ secstore' = s
            /\ sreply' = [sreply EXCEPT ![s] = reply]
            /\ spc' = [spc EXCEPT ![s] = "reg"]
            /\ UNCHANGED <<sauth, ttl_expired, ssecret, sact, scon, ssince, sidle>>
            /\ shello' = [shello EXCEPT ![s] = 0]
       ELSE /\ SessionEnds(s)
            /\ UNCHANGED secstore
    /\ UNCHANGED <<clinfos, rx_stop, spublished, lastReg>>
    /\ UNCHANGED OthersS

\* A send, a receive or the connect of the handshake failed or timed out
\* (the `??` of resolver_server.rs 215, 287-307)
HelloFail(s) ==
    /\ spc[s] \in {"send", "own"}
    /\ SessionEnds(s)
    /\ UNCHANGED <<clinfos, rx_stop, secstore, spublished, lastReg>>
    /\ UNCHANGED OthersS

\* A registration that overwrites the entry and stops nobody.
ReplacedStopNobody(ci) == 0

\* The stop sender registration takes out of the entry it finds
\* (mem::replace, resolver_server.rs 340-343): 0 when there is none.
ReplacedStop(ci) == IF ci.kind = "Running" THEN ci.stop ELSE 0

\* Registration under the Clinfos lock and entry into client_loop_write
\* (resolver_server.rs 333-363, 88-93): act = false, the interval starts now;
\* the locals of the handshake are not used again.
Register(s) ==
    /\ spc[s] = "reg"
    /\ IF clinfos.kind = "CleaningUp"
       THEN /\ SessionEnds(s)
            /\ UNCHANGED <<clinfos, rx_stop, lastReg>>
       ELSE /\ clinfos' = Running(s)
            /\ rx_stop' = StopSent(rx_stop, ReplacedStop(clinfos))
            /\ lastReg' = s
            /\ spc' = [spc EXCEPT ![s] = "loop"]
            /\ sact' = [sact EXCEPT ![s] = FALSE]
            /\ scon' = [scon EXCEPT ![s] = TRUE]
            /\ ssince' = [ssince EXCEPT ![s] = 0]
            /\ sidle' = [sidle EXCEPT ![s] = 0]
            /\ sauth' = [sauth EXCEPT ![s] = "Anonymous"]
            /\ ttl_expired' = [ttl_expired EXCEPT ![s] = FALSE]
            /\ ssecret' = [ssecret EXCEPT ![s] = 0]
            /\ sreply' = [sreply EXCEPT ![s] = NoReply]
            /\ UNCHANGED shello
    /\ UNCHANGED <<secstore, spublished>>
    /\ UNCHANGED OthersS

\* A stop arm that clears the address's publications on its way out.
SelectStopClears(s) ==
    /\ spc[s] = "loop"
    /\ rx_stop[s]
    /\ SessionEnds(s)
    /\ rx_stop' = [rx_stop EXCEPT ![s] = FALSE]
    /\ spublished' = FALSE
    /\ UNCHANGED <<clinfos, secstore, lastReg>>
    /\ UNCHANGED OthersS

\* select_biased!: rx_stop is ready (resolver_server.rs 107-108)
SelectStop(s) ==
    /\ spc[s] = "loop"
    /\ rx_stop[s]
    /\ SessionEnds(s)
    /\ rx_stop' = [rx_stop EXCEPT ![s] = FALSE]
    /\ UNCHANGED <<clinfos, secstore, spublished, lastReg>>
    /\ UNCHANGED OthersS

\* What a handled batch leaves in the store for write_addr.
StoreAfter(kind, pub) ==
    CASE kind = "Publish" -> TRUE
      [] kind = "Clear" -> FALSE
      [] OTHER -> pub

\* receive_batch returned Ok and the batch was handled (resolver_server.rs
\* 143-189); the select takes this arm only when no stop and no tick is ready.
RecvBatch(s, kind) ==
    /\ spc[s] = "loop"
    /\ ~rx_stop[s]
    /\ ssince[s] < Ttl
    /\ scon[s]
    /\ sact' = [sact EXCEPT ![s] = TRUE]
    /\ sidle' = [sidle EXCEPT ![s] = 0]
    /\ spublished' = StoreAfter(kind, spublished)
    /\ UNCHANGED <<spc, sauth, ttl_expired, ssecret, sreply, clinfos, rx_stop,
                   secstore, scon, ssince, lastReg>>
    /\ UNCHANGED shello
    /\ UNCHANGED OthersS

\* con = None: receive_batch returned Err (resolver_server.rs 137-142), or a
\* batch arrived and handle_batch_write failed on it (184-188).
RecvErr(s, got) ==
    /\ spc[s] = "loop"
    /\ ~rx_stop[s]
    /\ ssince[s] < Ttl
    /\ scon[s]
    /\ scon' = [scon EXCEPT ![s] = FALSE]
    /\ sact' = [sact EXCEPT ![s] = sact[s] \/ got]
    /\ sidle' = [sidle EXCEPT ![s] = IF got THEN 0 ELSE sidle[s]]
    /\ UNCHANGED <<spc, sauth, ttl_expired, ssecret, sreply, clinfos, rx_stop,
                   secstore, spublished, ssince, lastReg>>
    /\ UNCHANGED shello
    /\ UNCHANGED OthersS

\* A step of the Clear loop fails (resolver_server.rs 149-177): queue_send,
\* store.handle_clear or flush returns Err and `?` returns it from
\* client_loop_write.  The session is over and its Clinfos entry stays as it
\* is; `cleared` says whether handle_clear had returned before the failure.
BatchFail(s, cleared) ==
    /\ spc[s] = "loop"
    /\ ~rx_stop[s]
    /\ ssince[s] < Ttl
    /\ scon[s]
    /\ spublished' = (spublished /\ ~cleared)
    /\ SessionEnds(s)
    /\ UNCHANGED <<clinfos, rx_stop, secstore, lastReg>>
    /\ UNCHANGED OthersS

\* A tick arm that never cleans up.
TickNeverExpires(a) == FALSE

\* The tick arm cleans the session up when act is false (resolver_server.rs
\* 110-113).
TickExpires(a) == ~a

\* select_biased!: the interval ticked and no stop is ready (resolver_server.rs
\* 109-114): act is reset, or the cleanup starts by dropping the connection.
TickSelect(s) ==
    /\ spc[s] = "loop"
    /\ ~rx_stop[s]
    /\ ssince[s] = Ttl
    /\ ssince' = [ssince EXCEPT ![s] = 0]
    /\ IF TickExpires(sact[s])
       THEN /\ spc' = [spc EXCEPT ![s] = "tick"]
            /\ scon' = [scon EXCEPT ![s] = FALSE]
            /\ UNCHANGED sact
       ELSE /\ sact' = [sact EXCEPT ![s] = FALSE]
            /\ UNCHANGED <<spc, scon>>
    /\ UNCHANGED <<sauth, ttl_expired, ssecret, sreply, clinfos, rx_stop, secstore,
                   spublished, sidle, lastReg>>
    /\ UNCHANGED shello
    /\ UNCHANGED OthersS

\* The locked block of the cleanup (resolver_server.rs 115-128): the entry of
\* write_addr is removed whatever it is, a Running one is sent a stop, and a
\* CleaningUp one is the unreachable!() that ends the task after the removal.
TickLock(s) ==
    /\ spc[s] = "tick"
    /\ IF clinfos.kind = "CleaningUp"
       THEN /\ clinfos' = NoEntry
            /\ SessionEnds(s)
            /\ rx_stop' = [rx_stop EXCEPT ![s] = FALSE]
            /\ UNCHANGED secstore
       ELSE /\ rx_stop' = StopSent(rx_stop, ReplacedStop(clinfos))
            /\ clinfos' = CleaningUp({})
            /\ secstore' = 0
            /\ spc' = [spc EXCEPT ![s] = "clearing"]
            /\ UNCHANGED <<sauth, ttl_expired, ssecret, sreply, sact, scon, ssince,
                           sidle, shello>>
    /\ UNCHANGED <<spublished, lastReg>>
    /\ UNCHANGED OthersS

\* store.handle_clear returned Ok (resolver_server.rs 129-133): the store holds
\* nothing for write_addr, the entry is removed, "write client timed out".
ClearDone(s) ==
    /\ spc[s] = "clearing"
    /\ spublished' = FALSE
    /\ clinfos' = NoEntry
    /\ SessionEnds(s)
    /\ rx_stop' = [rx_stop EXCEPT ![s] = FALSE]
    /\ UNCHANGED <<secstore, lastReg>>
    /\ UNCHANGED OthersS

\* store.handle_clear returned Err: `?` returns before the entry is removed
\* (resolver_server.rs 129)
ClearFail(s) ==
    /\ spc[s] = "clearing"
    /\ SessionEnds(s)
    /\ rx_stop' = [rx_stop EXCEPT ![s] = FALSE]
    /\ UNCHANGED <<clinfos, secstore, spublished, lastReg>>
    /\ UNCHANGED OthersS

\* A time unit passes: no session is between two await points or has a stop or
\* a tick to take.
Advance ==
    /\ \A s \in Sess : spc[s] \notin {"check", "auth", "reg", "tick"}
    /\ \A s \in Sess : spc[s] = "loop" => (~rx_stop[s] /\ ssince[s] < Ttl)
    /\ \A s \in Sess : spc[s] \in {"send", "own"} => shello[s] < HelloTimeout
    /\ \E s \in Sess : spc[s] \in {"loop", "wait", "send", "own"}
    /\ ssince' = [s \in Sess |-> IF spc[s] = "loop" THEN ssince[s] + 1 ELSE ssince[s]]
    /\ sidle' = [s \in Sess |->
                    IF spc[s] = "loop" /\ sidle[s] < IdleCap
                    THEN sidle[s] + 1 ELSE sidle[s]]
    /\ shello' = [s \in Sess |->
                     IF spc[s] \in {"wait", "send", "own"} /\ shello[s] <= HelloTimeout
                     THEN shello[s] + 1 ELSE shello[s]]
    /\ UNCHANGED <<spc, sauth, ttl_expired, ssecret, sreply, clinfos, rx_stop,
                   secstore, spublished, sact, scon, lastReg>>
    /\ UNCHANGED OthersS

NextS ==
    \/ \E s \in Sess : HelloStart(s)
    \/ \E s \in Sess : HelloCheck(s)
    \/ \E s \in Sess : HelloWake(s)
    \/ \E s \in Sess, a \in AuthKinds, x \in Secrets : AuthBegin(s, a, x)
    \/ \E s \in Sess : AuthSent(s)
    \/ \E s \in Sess, r \in OwnershipReplies : OwnershipReply(s, r)
    \/ \E s \in Sess : HelloFail(s)
    \/ \E s \in Sess : Register(s)
    \/ \E s \in Sess : SelectStop(s)
    \/ \E s \in Sess, k \in {"Heartbeat", "Publish", "Clear"} : RecvBatch(s, k)
    \/ \E s \in Sess, g \in BOOLEAN : RecvErr(s, g)
    \/ \E s \in Sess, c \in BOOLEAN : BatchFail(s, c)
    \/ \E s \in Sess : TickSelect(s)
    \/ \E s \in Sess : TickLock(s)
    \/ \E s \in Sess : ClearDone(s)
    \/ \E s \in Sess : ClearFail(s)
    \/ Advance

\* What the runtime does by itself: time passes, a ready arm of the select is
\* taken, the code under the lock runs, store.handle_clear returns, and a wait
\* of the hello ends by its answer or by hello_timeout.  What the clients send,
\* and whether a connection or a batch fails, is left free.
FairS ==
    /\ WF_vars(Advance)
    /\ \A s \in Sess :
          /\ WF_vars(HelloCheck(s))
          /\ WF_vars(HelloWake(s))
          /\ WF_vars(\E a \in AuthKinds, x \in Secrets : AuthBegin(s, a, x))
          /\ WF_vars(AuthSent(s) \/ HelloFail(s))
          /\ WF_vars((\E r \in OwnershipReplies : OwnershipReply(s, r)) \/ HelloFail(s))
          /\ WF_vars(Register(s))
          /\ WF_vars(SelectStop(s))
          /\ WF_vars(TickSelect(s))
          /\ WF_vars(TickLock(s))
          /\ WF_vars(ClearDone(s) \/ ClearFail(s))

\* A session is in its main loop and no stop has been sent to it.
InLoop(s) == spc[s] \in {"loop", "tick"} /\ ~rx_stop[s]

TokenVerified(reply, secret) ==
    /\ reply.variant = "ResolverAuthenticate"
    /\ ~reply.short
    /\ reply.rest = <<"sha3", reply.salt, NotSecret(secret)>>

\* C7: for an Initiate hello the security store is written and the session is
\* registered only after the ownership reply's token has been verified against
\* the session secret; a session that ends while waiting for the reply or on a
\* bad reply leaves the security store and Clinfos as they were.
C7_StoreOnlyAfterOwnershipCheck ==
    [][/\ (secstore' # secstore /\ secstore' # 0)
              => /\ spc[secstore'] = "own"
                 /\ TokenVerified(sreply'[secstore'], ssecret[secstore'])
       /\ \A s \in Sess :
              /\ (sauth[s] = "Initiate" /\ spc[s] = "reg" /\ spc'[s] = "loop")
                     => TokenVerified(sreply[s], ssecret[s])
              /\ (spc[s] = "own" /\ spc'[s] = "done")
                     => (secstore' = secstore /\ clinfos' = clinfos)]_vars

\* C7 witness: an Initiate session whose secret is 1 has stored its context
\* after a verified reply and is about to register.
C7_Witness ==
    \E s \in Sess :
        /\ spc[s] = "reg"
        /\ sauth[s] = "Initiate"
        /\ ssecret[s] = 1
        /\ secstore = s
        /\ TokenVerified(sreply[s], 1)

\* C8: at the step that registers a session, the ttl_expired flag it sent is
\* true exactly when Clinfos holds no entry for write_addr, and false exactly
\* when it holds a Running entry.
C8_FlagMatchesRegistration ==
    [][\A s \in Sess :
          (spc[s] = "reg" /\ spc'[s] = "loop")
              => /\ ttl_expired[s] <=> clinfos.kind = "None"
                 /\ ~ttl_expired[s] <=> clinfos.kind = "Running"]_vars

\* C9: at most one session of write_addr is in its main loop without a stop
\* sent to it, and the stop handle of a Running entry is that of the session
\* that registered last.
C9_OneLiveSession ==
    /\ Cardinality({s \in Sess : InLoop(s)}) <= 1
    /\ clinfos.kind = "Running" => clinfos.stop = lastReg

\* C9 witness: session 2 replaced session 1, which has been sent its stop and
\* has not left its loop yet.
C9_Witness ==
    /\ spc[1] = "loop" /\ rx_stop[1]
    /\ spc[2] = "loop" /\ ~rx_stop[2]
    /\ clinfos = Running(2)
    /\ lastReg = 2

\* C21: every wait of a session between accepting the connection and entering
\* its main loop lasts at most hello_timeout: a session found waiting in its
\* hello has waited no longer than that.
C21_HelloWaitsBounded ==
    \A s \in Sess :
        spc[s] \in {"wait", "send", "own"} => shello[s] <= HelloTimeout

\* C26: a writer hello that finds the Clinfos entry in state CleaningUp, when it
\* first looks the address up or when it registers, does not fail: it becomes
\* a waiter of the cleanup and suspends.
C26_HelloWaitsForCleanup ==
    [][\A s \in Sess :
          (/\ spc[s] \in {"check", "reg"}
           /\ clinfos.kind = "CleaningUp"
           /\ spc'[s] # spc[s])
              => (spc'[s] = "wait" /\ s \in clinfos'.waiters)]_vars

C36_TickSparesNewerSession ==
    [][\A s \in Sess :
          (/\ spc[s] = "tick" /\ spc'[s] # "tick"
           /\ clinfos.kind = "Running" /\ clinfos.stop # s)
              => (clinfos' = clinfos /\ rx_stop'[clinfos.stop] = rx_stop[clinfos.stop])]_vars

\* C37 as stated: an entry that is CleaningUp is eventually not CleaningUp any
\* more, and a session waiting in its hello for a cleanup eventually stops
\* waiting.
C37_CleaningUpTransient ==
    /\ (clinfos.kind = "CleaningUp") ~> (clinfos.kind # "CleaningUp")
    /\ \A s \in Sess : (spc[s] = "wait") ~> (spc[s] # "wait")

\* C28: when the connection of the session that holds the Clinfos entry has
\* failed, or a step of processing one of its batches has failed, the entry and
\* the publications are not touched at that moment, and afterwards either the
\* session is replaced or its ttl path runs and the entry is removed.
C28_FailedSessionTimesOut ==
    /\ [][\A s \in Sess :
            (spc[s] = "loop" /\ ~rx_stop[s] /\ scon[s] /\ ~scon'[s])
                => clinfos' = clinfos]_vars
    /\ \A s \in Sess :
          (clinfos = Running(s) /\ ~scon[s] /\ spc[s] \in {"loop", "done"})
              ~> (clinfos.kind = "None" \/ \E o \in Sess \ {s} : clinfos = Running(o))

\* ========================================================================
\* Part U: Subscriber::subscribe_raw (subscriber.rs 201-347) for one path, and
\* connection / handle_control / handle_val (367-548) as far as subscribing goes.
\* The publisher's end of the connection may send any frame at any time.
\* ========================================================================

\* Concurrent subscribe_raw calls for the path
NCallers == 2

Callers == 1..NCallers

\* The frames the publisher's end sends in one run
MaxPubFrames == 3

\* The subscription ids the publisher's end uses
Ids == {1, 2}

Err == -1

Dropped == -2

Vacant == [kind |-> "Vacant", waiters |-> {}, weak |-> 0, owner |-> 0]

\* SubStatus::Pending(waiters); owner is the caller whose Init created it.
Pending(w, c) == [kind |-> "Pending", waiters |-> w, weak |-> 0, owner |-> c]

\* SubStatus::Subscribed(weak)
Subscribed(id) == [kind |-> "Subscribed", waiters |-> {}, weak |-> id, owner |-> 0]

InitU ==
    /\ ust = [c \in Callers |-> "idle"]
    /\ uraw = [c \in Callers |-> 0]
    /\ ures = [c \in Callers |-> 0]
    /\ wres = [c \in Callers |-> 0]
    /\ fres = [c \in Callers |-> 0]
    /\ subscribed = Vacant
    /\ connections = "none"
    /\ from_sub = <<>>
    /\ batched = <<>>
    /\ to_pub = <<>>
    /\ from_pub = <<>>
    /\ pending = 0
    /\ next_val = 0
    /\ next_sub = 0
    /\ subscriptions = {}
    /\ nsent = 0
    /\ npub = 0
    /\ nattempt = 0
    /\ uatt = [c \in Callers |-> 0]
    /\ nreplied = 0
    /\ solicited = TRUE
    /\ ucalled = [c \in Callers |-> FALSE]
    /\ ulast = [id \in Ids |-> 0]
    /\ udead = [id \in Ids |-> FALSE]
    /\ udeads = [id \in Ids |-> {}]
    /\ uwait = [c \in Callers |-> 0]
    /\ upaths = [c \in Callers |-> 1]

\* An upgrade that also succeeds while the subscribed map holds the weak handle.
UpgradesByMap(id, raws, ws, fs) ==
    /\ id > 0
    /\ \/ \E c \in Callers : raws[c] = id \/ ws[c] = id \/ fs[c] = id
       \/ (subscribed.kind = "Subscribed" /\ subscribed.weak = id)

\* Weak::upgrade succeeds (subscriber.rs 73-75): some Arc of the subscription is
\* held, by a caller or inside a oneshot that was sent and not received yet.
Upgrades(id, raws, ws, fs) ==
    /\ id > 0
    /\ \E c \in Callers : raws[c] = id \/ ws[c] = id \/ fs[c] = id

\* InitSt without the Pending case: a caller that finds an attempt under way
\* starts its own.
InitStNoDedup(entry, up) ==
    CASE entry.kind = "Vacant" -> "Resolve"
      [] entry.kind = "Pending" -> "Resolve"
      [] entry.kind = "Subscribed" -> IF up THEN "Subscribed" ELSE "Resolve"

\* The St the Init block gives the path (subscriber.rs 217-238), from the entry it
\* finds and whether a Subscribed entry's weak handle upgrades.
InitSt(entry, up) ==
    CASE entry.kind = "Vacant" -> "Resolve"
      [] entry.kind = "Pending" -> "WaitingOther"
      [] entry.kind = "Subscribed" -> IF up THEN "Subscribed" ELSE "Resolve"

\* How many times a batch names the path, at most
MaxNamed == 2

\* The entry the Init block leaves for an element it gave the St st
\* (subscriber.rs 219-236), c being the caller.
InitEntry(entry, st, c) ==
    CASE st = "Resolve" -> Pending({}, c)
      [] st = "WaitingOther" -> Pending(entry.waiters \cup {c}, entry.owner)
      [] OTHER -> entry

\* The Init loop (subscriber.rs 217-238) over a batch of k elements, each of
\* them the path: an element finds the entry the one before it left, and its
\* St takes the place of the one before in the call's pending map, which is
\* keyed by path.  made counts the Pending entries created.
RECURSIVE InitLoop(_, _, _, _)
InitLoop(entry, up, c, k) ==
    LET st == InitSt(entry, up)
        e == InitEntry(entry, st, c)
        made == IF st = "Resolve" THEN 1 ELSE 0
    IN IF k = 1 THEN [st |-> st, entry |-> e, made |-> made]
       ELSE LET r == InitLoop(e, up, c, k - 1)
            IN [st |-> r.st, entry |-> r.entry, made |-> r.made + made]

\* Init under the lock (subscriber.rs 214-241) for a batch that names the path
\* k times.
SubInitNamed(c, k) ==
    /\ ust[c] = "idle"
    /\ LET r == InitLoop(subscribed, Upgrades(subscribed.weak, uraw, wres, fres), c, k)
       IN /\ ust' = [ust EXCEPT ![c] = r.st]
          /\ subscribed' = r.entry
          /\ uraw' = [uraw EXCEPT ![c] = IF r.st = "Subscribed" THEN subscribed.weak ELSE 0]
          /\ nattempt' = nattempt + r.made
          /\ uatt' = [uatt EXCEPT ![c] = nattempt']
    /\ upaths' = [upaths EXCEPT ![c] = k]
    /\ UNCHANGED <<ures, wres, fres, connections, from_sub, batched, to_pub, from_pub,
                   pending, next_val, next_sub, subscriptions, nsent, npub, nreplied,
                   solicited, ucalled>>
    /\ UNCHANGED <<ulast, udead, udeads, uwait>>
    /\ UNCHANGED OthersU

\* Init for a batch that names the path once.
SubInit(c) == SubInitNamed(c, 1)

\* The last step of subscribe_raw (subscriber.rs 342-346) for a batch that names
\* the path k times: pending, keyed by path, has one St for it, so the second
\* pending.remove(&p).unwrap() panics; the call returns nothing and what it
\* held, the handle held with it, is dropped.
CollectPanics(c, held, ws) ==
    /\ ust' = [ust EXCEPT ![c] = "panicked"]
    /\ uraw' = [uraw EXCEPT ![c] = 0]
    /\ from_sub' = IF held > 0 /\ ~Upgrades(held, uraw', ws, fres) /\ connections = "running"
                   THEN Append(from_sub, [kind |-> "Unsubscribe", arg |-> held])
                   ELSE from_sub
    /\ UNCHANGED ures

\* r.resolve returned (subscriber.rs 248-290): "fail" for Err, "none" for zero
\* addresses, "addr" for the publisher's address; with an address the connection
\* is looked up or spawned and the request sent, under the lock.
SubResolve(c, outcome) ==
    /\ ust[c] = "Resolve"
    /\ IF outcome = "addr"
       THEN /\ connections' = IF connections = "none" THEN "running" ELSE connections
            /\ IF connections' = "running"
               THEN /\ from_sub' = Append(from_sub, [kind |-> "Subscribe", arg |-> c])
                    /\ ust' = [ust EXCEPT ![c] = "Subscribing"]
               ELSE /\ ust' = [ust EXCEPT ![c] = "Error"]
                    /\ UNCHANGED from_sub
       ELSE /\ ust' = [ust EXCEPT ![c] = "Error"]
            /\ UNCHANGED <<connections, from_sub>>
    /\ ucalled' = [ucalled EXCEPT ![c] = TRUE]
    /\ UNCHANGED <<uraw, ures, wres, fres, subscribed, batched, to_pub, from_pub,
                   pending, next_val, next_sub, subscriptions, nsent, npub, nattempt,
                   uatt, nreplied, solicited>>
    /\ UNCHANGED <<ulast, udead, udeads, uwait, upaths>>
    /\ UNCHANGED OthersU

\* Wait and collect for St::Subscribed and St::Error (subscriber.rs 296, 342-346):
\* nothing to await, the call returns.  For St::Subscribed this is also where
\* r.resolve returns (243-253): to_resolve is empty, the resolver is called all
\* the same, and its answer, Ok or Err, changes nothing.
SubReturn(c) ==
    /\ ust[c] \in {"Subscribed", "Error"}
    /\ ucalled' = [ucalled EXCEPT ![c] = TRUE]
    /\ IF upaths[c] = 1
       THEN /\ ures' = [ures EXCEPT ![c] = IF ust[c] = "Subscribed" THEN uraw[c] ELSE Err]
            /\ ust' = [ust EXCEPT ![c] = "done"]
            /\ UNCHANGED <<uraw, from_sub>>
       ELSE CollectPanics(c, uraw[c], wres)
    /\ UNCHANGED <<wres, fres, subscribed, connections, batched,
                   to_pub, from_pub, pending, next_val, next_sub, subscriptions,
                   nsent, npub, nattempt, uatt, nreplied, solicited>>
    /\ UNCHANGED <<ulast, udead, udeads, uwait, upaths>>
    /\ UNCHANGED OthersU

\* Wait for St::WaitingOther (subscriber.rs 297-301): the oneshot has a result;
\* r.resolve, called with the empty to_resolve, has returned before (243-253).
SubWaitOther(c) ==
    /\ ust[c] = "WaitingOther"
    /\ wres[c] # 0
    /\ ucalled' = [ucalled EXCEPT ![c] = TRUE]
    /\ wres' = [wres EXCEPT ![c] = 0]
    /\ IF upaths[c] = 1
       THEN /\ ures' = [ures EXCEPT ![c] = IF wres[c] > 0 THEN wres[c] ELSE Err]
            /\ uraw' = [uraw EXCEPT ![c] = IF wres[c] > 0 THEN wres[c] ELSE 0]
            /\ ust' = [ust EXCEPT ![c] = "done"]
            /\ UNCHANGED from_sub
       ELSE CollectPanics(c, wres[c], wres')
    /\ UNCHANGED <<fres, subscribed, connections, batched, to_pub,
                   from_pub, pending, next_val, next_sub, subscriptions, nsent, npub,
                   nattempt, uatt, nreplied, solicited>>
    /\ UNCHANGED <<ulast, udead, udeads, uwait, upaths>>
    /\ UNCHANGED OthersU

\* unsubscribe (subscriber.rs 402-419) on the entry of the path, for subscription
\* id of this address: a Subscribed entry goes when its weak handle is dead or is
\* this subscription's; up says whether the weak handle upgrades.
Unsubscribe(entry, id, up) ==
    IF entry.kind = "Subscribed" /\ (~up \/ entry.weak = id) THEN Vacant ELSE entry

\* Wait for St::Subscribing (subscriber.rs 302-338): the result of `finished`
\* is taken and, under the lock, the entry is removed and the waiters get the
\* error, or the entry becomes Subscribed and the waiters get the handle.  The
\* entry is Pending here; anything else is the unreachable!() of 311, 313, 327.
SubWaitOwn(c) ==
    /\ ust[c] = "Subscribing"
    /\ fres[c] # 0
    /\ subscribed.kind = "Pending"
    /\ LET res == IF fres[c] > 0 THEN fres[c] ELSE Err
       IN /\ subscribed' = IF res = Err THEN Vacant ELSE Subscribed(res)
          /\ wres' = [w \in Callers |-> IF w \in subscribed.waiters THEN res ELSE wres[w]]
          /\ ures' = [ures EXCEPT ![c] = res]
          /\ uraw' = [uraw EXCEPT ![c] = IF res = Err THEN 0 ELSE res]
    /\ fres' = [fres EXCEPT ![c] = 0]
    /\ ust' = [ust EXCEPT ![c] = "done"]
    /\ UNCHANGED <<connections, from_sub, batched, to_pub, from_pub, pending,
                   next_val, next_sub, subscriptions, nsent, npub, nattempt, uatt, nreplied,
                   solicited, ucalled>>
    /\ UNCHANGED <<ulast, udead, udeads, uwait, upaths>>
    /\ UNCHANGED OthersU

\* The future of subscribe_raw is dropped (a caller's timeout, a select) while
\* the call owns the attempt for the path and is suspended at r.resolve
\* (subscriber.rs 248) or at the `finished` oneshot (303).  Its locals go, a
\* handle already in the oneshot with them; subscribe_raw has no guard that
\* runs then, so the subscribed map is left as it is.
SubCancel(c) ==
    /\ ust[c] \in {"Resolve", "Subscribing"}
    /\ ust' = [ust EXCEPT ![c] = "cancelled"]
    /\ fres' = [fres EXCEPT ![c] = IF @ > 0 THEN 0 ELSE @]
    /\ from_sub' = IF /\ fres[c] > 0
                      /\ ~Upgrades(fres[c], uraw, wres, fres')
                      /\ connections = "running"
                   THEN Append(from_sub, [kind |-> "Unsubscribe", arg |-> fres[c]])
                   ELSE from_sub
    /\ UNCHANGED <<uraw, ures, wres, subscribed, connections, batched, to_pub,
                   from_pub, pending, next_val, next_sub, subscriptions, nsent, npub,
                   nattempt, uatt, nreplied, solicited, ucalled, ulast, udead,
                   udeads, uwait, upaths>>
    /\ UNCHANGED OthersU

\* RawSubscription::dead (subscriber.rs 103-109) called on the handle a caller
\* holds: NotifyDead goes to the connection task and the call waits on the
\* oneshot, or returns at once when the task is gone.
NotifyDead(c) ==
    /\ ust[c] = "done"
    /\ uraw[c] > 0
    /\ uwait[c] = 0
    /\ IF connections = "running"
       THEN /\ from_sub' = Append(from_sub, [kind |-> "NotifyDead", arg |-> c])
            /\ uwait' = [uwait EXCEPT ![c] = uraw[c]]
       ELSE /\ uwait' = [uwait EXCEPT ![c] = -1]
            /\ UNCHANGED from_sub
    /\ UNCHANGED <<ust, uraw, ures, wres, fres, subscribed, connections, batched,
                   to_pub, from_pub, pending, next_val, next_sub, subscriptions,
                   nsent, npub, nattempt, uatt, nreplied, solicited, ucalled,
                   ulast, udead, udeads, upaths>>
    /\ UNCHANGED OthersU

\* A caller drops the handle subscribe_raw returned (not while its dead() call
\* borrows it); dropping the last Arc runs Drop for RawSubscriptionInner
\* (subscriber.rs 63-67), which queues Unsubscribe unless the connection task
\* is gone.
DropHandle(c) ==
    /\ ust[c] = "done"
    /\ uraw[c] > 0
    /\ uwait[c] <= 0
    /\ uraw' = [uraw EXCEPT ![c] = 0]
    /\ from_sub' = IF ~Upgrades(uraw[c], uraw', wres, fres) /\ connections = "running"
                   THEN Append(from_sub, [kind |-> "Unsubscribe", arg |-> uraw[c]])
                   ELSE from_sub
    /\ UNCHANGED <<ust, ures, wres, fres, subscribed, connections, batched, to_pub,
                   from_pub, pending, next_val, next_sub, subscriptions, nsent, npub,
                   nattempt, uatt, nreplied,
                   solicited, ucalled>>
    /\ UNCHANGED <<ulast, udead, udeads, uwait, upaths>>
    /\ UNCHANGED OthersU

\* The callers whose request is dropped with the set of requests reqs: their
\* `finished` sender goes away.
DropRequests(reqs) ==
    [c \in Callers |-> IF c \in reqs /\ fres[c] = 0 THEN Dropped ELSE fres[c]]

\* connection: a ToCon::Subscribe, ToCon::Unsubscribe or ToCon::NotifyDead from
\* the subscriber (subscriber.rs 503-511, 530-534); a request already in pending
\* for the path is replaced and dropped; the sender of a NotifyDead is kept by
\* the Sub of the id, or dropped when there is none.
ConFromSub ==
    /\ connections = "running"
    /\ from_sub # <<>>
    /\ LET m == Head(from_sub)
       IN /\ IF m.kind = "Subscribe"
             THEN /\ pending' = m.arg
                  /\ fres' = DropRequests({pending} \ {0})
             ELSE UNCHANGED <<pending, fres>>
          /\ IF m.kind = "NotifyDead"
             THEN /\ IF uwait[m.arg] \in subscriptions
                     THEN /\ udeads' = [udeads EXCEPT ![uwait[m.arg]] = @ \cup {m.arg}]
                          /\ UNCHANGED uwait
                     ELSE /\ uwait' = [uwait EXCEPT ![m.arg] = -1]
                          /\ UNCHANGED udeads
                  /\ UNCHANGED batched
             ELSE /\ batched' = Append(batched, m)
                  /\ UNCHANGED <<udeads, uwait>>
    /\ from_sub' = Tail(from_sub)
    /\ UNCHANGED <<ust, uraw, ures, wres, subscribed, connections, to_pub, from_pub,
                   next_val, next_sub, subscriptions, nsent, npub, nattempt, uatt, nreplied,
                   solicited, ucalled>>
    /\ UNCHANGED <<ulast, udead, upaths>>
    /\ UNCHANGED OthersU

\* connection: BatchItem::EndBatch (subscriber.rs 535-538): the frames go out.
ConEndBatch ==
    /\ connections = "running"
    /\ batched # <<>>
    /\ to_pub' = to_pub \o batched
    /\ nsent' = nsent + Cardinality({i \in DOMAIN batched : batched[i].kind = "Subscribe"})
    /\ batched' = <<>>
    /\ UNCHANGED <<ust, uraw, ures, wres, fres, subscribed, connections, from_sub,
                   from_pub, pending, next_val, next_sub, subscriptions, npub,
                   nattempt, uatt, nreplied,
                   solicited, ucalled>>
    /\ UNCHANGED <<ulast, udead, udeads, uwait, upaths>>
    /\ UNCHANGED OthersU

\* The frames a peer can send: the FromPublisher variants (subscriber.rs
\* 430-449) and a frame that is none of them, as a value is.
PubFrames ==
    {[kind |-> "NoSuchValue", arg |-> 0], [kind |-> "Value", arg |-> 0]}
    \cup {[kind |-> k, arg |-> id] : k \in {"Message", "Subscribed", "Unsubscribed"},
                                     id \in Ids}

\* The publisher's end of the connection sends the frame m (read by con.next(),
\* subscriber.rs 487), as one of at most max frames.
PubFrameUpTo(m, max) ==
    /\ connections = "running"
    /\ npub < max
    /\ npub' = npub + 1
    /\ from_pub' = Append(from_pub, m)
    /\ IF m.kind \in {"NoSuchValue", "Subscribed"}
       THEN /\ nreplied' = nreplied + 1
            /\ solicited' = (solicited /\ nreplied < nsent)
       ELSE UNCHANGED <<nreplied, solicited>>
    /\ UNCHANGED <<ust, uraw, ures, wres, fres, subscribed, connections, from_sub,
                   batched, to_pub, pending, next_val, next_sub, subscriptions, nsent,
                   nattempt, uatt, ucalled>>
    /\ UNCHANGED <<ulast, udead, udeads, uwait, upaths>>
    /\ UNCHANGED OthersU

PubFrame(m) == PubFrameUpTo(m, MaxPubFrames)

\* The callers with a Subscribe request in the queue q.
Requests(q) == {q[i].arg : i \in {j \in DOMAIN q : q[j].kind = "Subscribe"}}

\* The callers whose NotifyDead is still in the queue q.
Notifiers(q) == {q[i].arg : i \in {j \in DOMAIN q : q[j].kind = "NotifyDead"}}

\* A Sub that is removed without its dead flag being touched.
SetDeadNot(dead, ids) == dead

\* sub.dead.store(true) (subscriber.rs 408) for the Subs of ids.
SetDead(dead, ids) == [id \in Ids |-> dead[id] \/ id \in ids]

\* The Subs of ids are dropped at the end of unsubscribe (subscriber.rs 402-419)
\* and the senders in dropped go with their messages: every dead() call waiting
\* on one of them returns.
ReleaseDeads(w, ids, dropped) ==
    [c \in Callers |->
        IF c \in dropped \/ (\E id \in ids : c \in udeads[id]) THEN -1 ELSE w[c]]

\* The connection task ends (subscriber.rs 541-546): every subscription is
\* unsubscribed and every request the task or its queue still held is dropped;
\* the sender stays in SubscriberInner.connections.
Teardown ==
    /\ connections' = "dead"
    /\ fres' = DropRequests((Requests(from_sub) \cup {pending, next_sub}) \ {0})
    /\ subscribed' =
          IF \E id \in subscriptions :
                Unsubscribe(subscribed, id,
                            Upgrades(subscribed.weak, uraw, wres, fres)) # subscribed
          THEN Vacant ELSE subscribed
    /\ subscriptions' = {}
    /\ ulast' = [id \in Ids |-> 0]
    /\ udead' = SetDead(udead, subscriptions)
    /\ udeads' = [id \in Ids |-> {}]
    /\ uwait' = ReleaseDeads(uwait, subscriptions, Notifiers(from_sub))
    /\ from_sub' = <<>>
    /\ batched' = <<>>
    /\ to_pub' = <<>>
    /\ from_pub' = <<>>
    /\ pending' = 0
    /\ next_val' = 0
    /\ next_sub' = 0
    /\ UNCHANGED <<ust, uraw, ures, wres, nsent, npub, nattempt, uatt, nreplied,
                   solicited, ucalled>>

\* handle_control returns Err (subscriber.rs 431, 438): the frame m does not
\* decode, or it is a Subscribed for a path with no pending request.
ControlFails(m) == m.kind = "Value" \/ (m.kind = "Subscribed" /\ pending = 0)

\* handle_control (subscriber.rs 421-451) for the control message m.
HandleControl(m) ==
    CASE m.kind = "Message" ->
            /\ next_val' = m.arg
            /\ UNCHANGED <<next_sub, pending, fres, subscriptions, subscribed, ulast,
                           udead, udeads, uwait>>
      [] m.kind = "NoSuchValue" ->
            /\ fres' = IF pending # 0 THEN [fres EXCEPT ![pending] = Err] ELSE fres
            /\ pending' = 0
            /\ UNCHANGED <<next_val, next_sub, subscriptions, subscribed, ulast,
                           udead, udeads, uwait>>
      [] m.kind = "Subscribed" ->
            /\ next_val' = m.arg
            /\ next_sub' = pending
            /\ pending' = 0
            /\ fres' = DropRequests({next_sub} \ {0})
            /\ UNCHANGED <<subscriptions, subscribed, ulast, udead, udeads, uwait>>
      [] m.kind = "Unsubscribed" ->
            /\ subscriptions' = subscriptions \ {m.arg}
            /\ ulast' = [ulast EXCEPT ![m.arg] = 0]
            /\ subscribed' =
                  IF m.arg \in subscriptions
                  THEN Unsubscribe(subscribed, m.arg,
                                   Upgrades(subscribed.weak, uraw, wres, fres))
                  ELSE subscribed
            /\ udead' = SetDead(udead, subscriptions \cap {m.arg})
            /\ udeads' = [udeads EXCEPT ![m.arg] = {}]
            /\ uwait' = ReleaseDeads(uwait, subscriptions \cap {m.arg}, {})
            /\ UNCHANGED <<next_val, next_sub, pending, fres>>

\* The number of the frame the connection task reads next, counting the frames
\* of the publisher's end from 1.
FrameNo == npub - Len(from_pub) + 1

\* handle_val that does not store the frame.
StoreLastNot(last, subs, id, n) == last

\* handle_val stores the frame numbered n as the last of the Sub of id
\* (subscriber.rs 385, 390), subs being the ids with a Sub after the match.
StoreLast(last, subs, id, n) == IF id \in subs THEN [last EXCEPT ![id] = n] ELSE last

\* What the connection task answers to ToCon::Last(id) (subscriber.rs 525-529):
\* the last of the Sub, or 0 when it drops the sender and last() returns None.
LastOf(subs, last, id) == IF id \in subs THEN last[id] ELSE 0

\* handle_val (subscriber.rs 375-400) for the id in next_val and the frame msg:
\* an existing Sub takes msg as its last; for a new id the Sub is created with
\* msg as its last and the request in next_sub gets its handle.  When the
\* call of the request was cancelled the send fails and the handle, the only
\* one, is dropped there, which queues its Unsubscribe.
HandleVal ==
    /\ next_val' = 0
    /\ IF next_val \notin subscriptions /\ next_sub # 0
       THEN /\ subscriptions' = subscriptions \cup {next_val}
            /\ IF ust[next_sub] = "cancelled"
               THEN /\ from_sub' = Append(from_sub, [kind |-> "Unsubscribe", arg |-> next_val])
                    /\ UNCHANGED fres
               ELSE /\ fres' = [fres EXCEPT ![next_sub] = next_val]
                    /\ UNCHANGED from_sub
            /\ next_sub' = 0
            /\ udead' = [udead EXCEPT ![next_val] = FALSE]
       ELSE UNCHANGED <<subscriptions, fres, next_sub, udead, from_sub>>
    /\ ulast' = StoreLast(ulast, subscriptions', next_val, FrameNo)
    /\ UNCHANGED <<pending, subscribed, udeads, uwait>>

\* connection: a frame from the publisher (subscriber.rs 491-501).  With
\* next_val set it is a value whatever it holds; otherwise it is a control
\* message, and an error from handle_control breaks the loop.
ConFromPub ==
    /\ connections = "running"
    /\ from_pub # <<>>
    /\ IF next_val = 0 /\ ControlFails(Head(from_pub))
       THEN Teardown
       ELSE /\ IF next_val # 0 THEN HandleVal
               ELSE HandleControl(Head(from_pub)) /\ UNCHANGED from_sub
            /\ from_pub' = Tail(from_pub)
            /\ UNCHANGED <<ust, uraw, ures, wres, connections, batched,
                           to_pub, nsent, npub, nattempt, uatt, nreplied,
                   solicited, ucalled>>
    /\ UNCHANGED upaths
    /\ UNCHANGED OthersU

\* connection ends (subscriber.rs 478, 490-491, 537): connect failed, the
\* publisher closed, or an io error broke the loop.
ConDie ==
    /\ connections = "running"
    /\ Teardown
    /\ UNCHANGED upaths
    /\ UNCHANGED OthersU

NextU ==
    \/ \E c \in Callers : SubInit(c)
    \/ \E c \in Callers, o \in {"fail", "none", "addr"} : SubResolve(c, o)
    \/ \E c \in Callers : SubReturn(c)
    \/ \E c \in Callers : SubWaitOther(c)
    \/ \E c \in Callers : SubWaitOwn(c)
    \/ \E c \in Callers : DropHandle(c)
    \/ \E c \in Callers : NotifyDead(c)
    \/ ConFromSub
    \/ ConEndBatch
    \/ \E m \in PubFrames : PubFrame(m)
    \/ ConFromPub
    \/ ConDie

\* The frames the publisher's end sends after a first subscription is up
MaxLaterFrames == 3

\* The subscriber after a first subscribe_raw call has returned the
\* subscription with id 1 (the frames Subscribed(1) and its value have been
\* read) and while the caller still holds it; the other caller has not run.
InitSubscribed ==
    /\ ust = [c \in Callers |-> IF c = 1 THEN "done" ELSE "idle"]
    /\ uraw = [c \in Callers |-> IF c = 1 THEN 1 ELSE 0]
    /\ ures = [c \in Callers |-> IF c = 1 THEN 1 ELSE 0]
    /\ wres = [c \in Callers |-> 0]
    /\ fres = [c \in Callers |-> 0]
    /\ subscribed = Subscribed(1)
    /\ connections = "running"
    /\ from_sub = <<>>
    /\ batched = <<>>
    /\ to_pub = <<[kind |-> "Subscribe", arg |-> 1]>>
    /\ from_pub = <<>>
    /\ pending = 0
    /\ next_val = 0
    /\ next_sub = 0
    /\ subscriptions = {1}
    /\ nsent = 1
    /\ npub = 2
    /\ nattempt = 1
    /\ uatt = [c \in Callers |-> IF c = 1 THEN 1 ELSE 0]
    /\ nreplied = 1
    /\ solicited = TRUE
    /\ ucalled = [c \in Callers |-> c = 1]
    /\ ulast = [id \in Ids |-> IF id = 1 THEN 2 ELSE 0]
    /\ udead = [id \in Ids |-> FALSE]
    /\ udeads = [id \in Ids |-> {}]
    /\ uwait = [c \in Callers |-> 0]
    /\ upaths = [c \in Callers |-> 1]

\* The subscriber from there on: the steps of NextU, the publisher's end
\* sending MaxLaterFrames more frames.  The one call left to run finds no
\* attempt of another call under way, so none waits on another.
NextUS ==
    \/ \E c \in Callers : SubInit(c)
    \/ \E c \in Callers, o \in {"fail", "none", "addr"} : SubResolve(c, o)
    \/ \E c \in Callers : SubReturn(c)
    \/ \E c \in Callers : SubWaitOwn(c)
    \/ \E c \in Callers : DropHandle(c)
    \/ \E c \in Callers : NotifyDead(c)
    \/ ConFromSub
    \/ ConEndBatch
    \/ \E m \in PubFrames : PubFrameUpTo(m, 2 + MaxLaterFrames)
    \/ ConFromPub
    \/ ConDie

\* Calls whose batch names the path up to MaxNamed times, and calls that are
\* cancelled.
NextUB ==
    \/ \E c \in Callers, k \in 1..MaxNamed : SubInitNamed(c, k)
    \/ \E c \in Callers, o \in {"fail", "none", "addr"} : SubResolve(c, o)
    \/ \E c \in Callers : SubReturn(c)
    \/ \E c \in Callers : SubWaitOther(c)
    \/ \E c \in Callers : SubWaitOwn(c)
    \/ \E c \in Callers : SubCancel(c)
    \/ \E c \in Callers : DropHandle(c)
    \/ \E c \in Callers : NotifyDead(c)
    \/ ConFromSub
    \/ ConEndBatch
    \/ \E m \in PubFrames : PubFrame(m)
    \/ ConFromPub
    \/ ConDie

\* The executor runs a task that can go on: a call whose resolver answered or
\* whose oneshot holds a result, and the connection task with a message or a
\* frame to take.  Nothing makes a caller call, cancel or drop, the
\* publisher's end send, or the connection break.
FairU ==
    /\ \A c \in Callers :
          /\ WF_vars(\E o \in {"fail", "none", "addr"} : SubResolve(c, o))
          /\ WF_vars(SubReturn(c))
          /\ WF_vars(SubWaitOther(c))
          /\ WF_vars(SubWaitOwn(c))
    /\ WF_vars(ConFromSub)
    /\ WF_vars(ConEndBatch)
    /\ WF_vars(ConFromPub)

C3_NoPendingAfterFailure ==
    \A c \in Callers :
        ust[c] = "done" =>
            /\ ~(subscribed.kind = "Pending" /\ subscribed.owner = c)
            /\ \A w \in Callers :
                  (ust[w] = "WaitingOther" /\ uatt[w] = uatt[c]) => wres[w] # 0

\* C13 as stated, its first half: a call that found a Subscribed entry whose
\* handle upgrades makes no resolver call.
C13_ReuseWithoutResolverCall ==
    [][\A c \in Callers : ust[c] = "Subscribed" => ~ucalled'[c]]_vars

\* C13, the rest of the claim, which holds: the Init section of a call that finds a Subscribed entry whose
\* handle upgrades takes that subscription and leaves the entry and the attempt
\* count alone, and the call then returns that subscription without a message
\* to the connection task or a change of the map (its resolver call has an
\* empty list of paths); if the handle does not upgrade, the entry becomes an
\* empty Pending owned by the call and the path is to be resolved.
C13_ReuseOrResolveAgain ==
    [][\A c \in Callers :
        /\ (ust[c] = "idle" /\ ust'[c] # "idle" /\ subscribed.kind = "Subscribed")
              => IF Upgrades(subscribed.weak, uraw, wres, fres)
                 THEN /\ ust'[c] = "Subscribed"
                      /\ uraw'[c] = subscribed.weak
                      /\ subscribed' = subscribed
                      /\ nattempt' = nattempt
                 ELSE /\ ust'[c] = "Resolve"
                      /\ subscribed' = Pending({}, c)
        /\ (ust[c] = "Subscribed" /\ ust'[c] # ust[c])
              => /\ ust'[c] = "done"
                 /\ ures'[c] = uraw[c]
                 /\ UNCHANGED <<subscribed, connections, from_sub, batched, to_pub,
                                nsent, nattempt>>]_vars

\* C13 witness: a call has found the subscription another call holds and has
\* returned it.
C13_Witness ==
    \E c, d \in Callers :
        /\ c # d
        /\ ust[c] = "done" /\ ust[d] = "done"
        /\ uatt[c] = uatt[d]
        /\ ures[c] = 1 /\ ures[d] = 1
        /\ uraw[c] = 1 /\ uraw[d] = 1
        /\ subscribed = Subscribed(1)
        /\ nattempt = 1 /\ nsent = 1
        /\ wres[c] = 0 /\ wres[d] = 0

\* C14: a request reaches next_sub only by a Subscribed frame read while it is
\* pending; its handle is sent only by the step that reads the frame after
\* that as the value of the id, and from that step on, while the Sub exists,
\* last() of the id answers a frame that was received: the one read by the
\* latest step that took a value for the id.  A caller returns a handle only
\* after it was sent.
C14_HandleAfterSubscribedAndValue ==
    [][/\ \A c \in Callers :
            /\ (next_sub' = c /\ next_sub # c)
                  => /\ from_pub # <<>> /\ from_pub' = Tail(from_pub)
                     /\ Head(from_pub).kind = "Subscribed"
                     /\ pending = c /\ next_val = 0
                     /\ next_val' = Head(from_pub).arg
            /\ (fres'[c] > 0 /\ fres[c] # fres'[c])
                  => /\ next_sub = c /\ next_val = fres'[c]
                     /\ from_pub # <<>> /\ from_pub' = Tail(from_pub)
                     /\ LastOf(subscriptions', ulast', fres'[c]) = npub - Len(from_pub) + 1
            /\ (ures'[c] > 0 /\ ures[c] # ures'[c])
                  => ures'[c] \in {fres[c], wres[c], uraw[c]}
       /\ \A id \in Ids :
            /\ id \in subscriptions' <=> LastOf(subscriptions', ulast', id) \in 1..npub
            /\ IF next_val = id /\ next_val' = 0 /\ id \in subscriptions'
               THEN LastOf(subscriptions', ulast', id) = npub - Len(from_pub) + 1
               ELSE LastOf(subscriptions', ulast', id)
                       \in {0, LastOf(subscriptions, ulast, id)}]_vars

\* C14 witness: a caller has returned the handle of id 1 after Subscribed (frame
\* 1) and the value (frame 2); a third frame has been read since, and last()
\* answers frame 2.
C14_Witness ==
    \E c \in Callers :
        /\ ust[c] = "done" /\ ures[c] = 1 /\ uraw[c] = 1
        /\ connections = "running"
        /\ npub = 3 /\ from_pub = <<>>
        /\ LastOf(subscriptions, ulast, 1) = 2

\* The Unsubscribe(id) message and frame.
Unsub(id) == [kind |-> "Unsubscribe", arg |-> id]

\* A strong handle of subscription id is held: by a caller, or in a oneshot.
Strong(id) == \E c \in Callers : uraw[c] = id \/ wres[c] = id \/ fres[c] = id

\* How many times m occurs in the sequence q.
Count(q, m) == Cardinality({i \in DOMAIN q : q[i] = m})

\* C15 as stated: the step that drops the last strong handle of a subscription
\* queues Unsubscribe(id) to its connection task.
C15_LastDropQueuesUnsubscribe ==
    [][\A id \in Ids :
          (Strong(id) /\ ~Strong(id)') => from_sub' = Append(from_sub, Unsub(id))]_vars

\* C15, amended: Unsubscribe(id) is queued only by the step that drops the last
\* strong handle of id, and that step queues it, once, whenever the connection
\* task is running, whatever the subscribed map holds; between the queue, the
\* batch and the frames written there is never more than one Unsubscribe(id),
\* and none while a strong handle is held; the task moves it to the batch in
\* order and an end of batch writes the whole batch to the publisher.
C15_UnsubscribeOnLastDrop ==
    [][/\ \A id \in Ids :
            /\ Count(from_sub', Unsub(id)) > Count(from_sub, Unsub(id))
                  => (Strong(id) /\ ~Strong(id)')
            /\ (Strong(id) /\ ~Strong(id)' /\ connections = "running")
                  => from_sub' = Append(from_sub, Unsub(id))
            /\ Count(from_sub' \o batched' \o to_pub', Unsub(id)) <= 1
            /\ Strong(id)' => Count(from_sub' \o batched' \o to_pub', Unsub(id)) = 0
       /\ (batched' # batched /\ connections' = "running")
             => \/ (from_sub # <<>> /\ batched' = Append(batched, Head(from_sub))
                      /\ from_sub' = Tail(from_sub) /\ to_pub' = to_pub)
                \/ (batched' = <<>> /\ to_pub' = to_pub \o batched
                      /\ from_sub' = from_sub)]_vars

\* C15 witness: the callers have dropped their handles of subscription 1, its
\* Unsubscribe has been written to the publisher, and the map still holds the
\* weak handle.
C15_Witness ==
    /\ \A c \in Callers : ust[c] = "done" /\ ures[c] = 1
    /\ ~Strong(1)
    /\ subscribed = Subscribed(1)
    /\ connections = "running"
    /\ to_pub = <<[kind |-> "Subscribe", arg |-> 1], Unsub(1)>>
    /\ from_sub = <<>> /\ batched = <<>>

\* The subscriptions a step removes from the connection task.
Gone == subscriptions \ subscriptions'

\* C32 as stated: a step that removes subscriptions sets their dead flags and
\* releases their death waiters, and it removes the subscribed entry of the
\* path if and only if the entry is Subscribed and refers to one of them.
C32_RemovedIffExactlyThis ==
    [][Gone # {} =>
          /\ \A id \in Gone : udead'[id] /\ udeads'[id] = {}
          /\ \A c \in Callers : (\E id \in Gone : c \in udeads[id]) => uwait'[c] = -1
          /\ subscribed' = IF subscribed.kind = "Subscribed" /\ subscribed.weak \in Gone
                           THEN Vacant ELSE subscribed]_vars

\* C32, amended: a step that removes subscriptions sets their dead flags and
\* releases their death waiters; it removes the subscribed entry of the path
\* if and only if the entry is Subscribed and either refers to one of them or
\* holds a weak handle that no longer upgrades, whichever subscription that
\* handle was of; a Pending entry, and a Subscribed entry of another
\* subscription that still upgrades, stay as they are.
C32_RemovedIfThisOrDead ==
    [][Gone # {} =>
          /\ \A id \in Gone : udead'[id] /\ udeads'[id] = {}
          /\ \A c \in Callers : (\E id \in Gone : c \in udeads[id]) => uwait'[c] = -1
          /\ subscribed' = IF /\ subscribed.kind = "Subscribed"
                              /\ (subscribed.weak \in Gone \/ ~Strong(subscribed.weak))
                           THEN Vacant ELSE subscribed]_vars

\* C32 witness: subscription 1 was dropped and subscription 2 made and dropped
\* by the callers; Unsubscribed(1), the last frame, has then removed the entry
\* that held the dead weak handle of subscription 2, whose Sub is still there.
C32_Witness ==
    /\ ures = [c \in Callers |-> c]
    /\ \A c \in Callers : ust[c] = "done"
    /\ ~Strong(1) /\ ~Strong(2)
    /\ subscriptions = {2}
    /\ udead[1] /\ ~udead[2]
    /\ subscribed = Vacant
    /\ connections = "running"
    /\ npub = 2 + MaxLaterFrames /\ from_pub = <<>>

\* C34 as stated: the connections map holds no sender of a connection task
\* that has ended, so that a call resolving to the address finds no entry and
\* spawns a task.
C34_ConnectionsAllRunning == connections # "dead"

\* An attempt for the path is with the resolver or the connection task: the
\* call that owns it is waiting for their answer.
AttemptUnderWay == \E d \in Callers : ust[d] \in {"Resolve", "Subscribing"}

\* C38 as stated: a call that has started, for a batch naming the path once or
\* more, returns one result per element (in the model a call that returns at
\* all does), given that what it waits for answers: it is not held to return
\* while the resolver or the publisher owe an answer to an attempt, nor while
\* it waits on the attempt of another call, nor when it was cancelled.
C38_ReturnsOnePerElement ==
    \A c \in Callers :
        (ust[c] \notin {"idle", "cancelled"})
            ~> \/ ust[c] \in {"done", "cancelled"}
               \/ AttemptUnderWay
               \/ /\ ust[c] = "WaitingOther"
                  /\ subscribed.kind = "Pending" /\ subscribed.owner # c

\* C39 as stated: when the call that owns the attempt for the path has been
\* cancelled the entry does not stay the Pending entry of that attempt, and
\* the calls waiting on it stop waiting.
C39_CancelledAttemptEnds ==
    \A c \in Callers :
        /\ (ust[c] = "cancelled" /\ subscribed.kind = "Pending" /\ subscribed.owner = c)
              ~> ~(subscribed.kind = "Pending" /\ subscribed.owner = c)
        /\ \A w \in Callers \ {c} :
              (ust[c] = "cancelled" /\ ust[w] = "WaitingOther" /\ uatt[w] = uatt[c])
                  ~> ust[w] # "WaitingOther"

\* C12: once the connection task has ended, the subscribed map holds no
\* Subscribed entry (every subscription of the path went over this connection);
\* stated for a publisher that answered only the requests it got.
C12_NoSubscribedAfterTeardown ==
    (connections = "dead" /\ solicited) => subscribed.kind # "Subscribed"

\* ========================================================================
\* Part V: the values of one subscription: connection (subscriber.rs 486-539),
\* handle_val (368-400) and RawSubscription::updates (120-125).  The
\* subscription exists (its first value, numbered 0, made the Sub).  The frames
\* are numbered in the order the publisher's end sends them.
\* ========================================================================

\* The frames the publisher's end sends in one run
MaxValFrames == 4
\* The updates() calls of one run
MaxStreams == 2
\* subscriber.rs:121 mpsc::channel(100), scaled down so that a stream fills up
StreamBuffer == 1

StreamIds == 1..MaxStreams

InitV ==
    /\ vin = <<>>
    /\ vpub = 0
    /\ vnext_val = FALSE
    /\ vreqs = <<>>
    /\ streams = <<>>
    /\ sub_last = 0
    /\ vchan = [s \in StreamIds |-> <<>>]
    /\ vclosed = [s \in StreamIds |-> FALSE]
    /\ vrecv = [s \in StreamIds |-> <<>>]
    /\ vnstreams = 0
    /\ vpc = "select"
    /\ vi = 1
    /\ vmsg = 0
    /\ vlog = <<0>>
    /\ vreg = [s \in StreamIds |-> 0]
    /\ vwant = [s \in StreamIds |-> FALSE]

\* A bounded futures mpsc channel takes a message of its one sender while it
\* holds no more than its buffer.
StreamHasRoom(q) == Len(q) <= StreamBuffer

\* The publisher's end sends a frame (read by con.next(), subscriber.rs 487):
\* one that decodes as Message(id) or one that does not, as a value.
Publish(hdr) ==
    /\ vpub < MaxValFrames
    /\ vpub' = vpub + 1
    /\ vin' = Append(vin, [hdr |-> hdr, n |-> vpub + 1])
    /\ UNCHANGED <<vnext_val, vreqs, streams, sub_last, vchan, vclosed, vrecv, vnstreams,
                   vpc, vi, vmsg, vlog, vreg, vwant>>
    /\ UNCHANGED OthersV

\* RawSubscription::updates (subscriber.rs 120-125): a new channel, its sender
\* goes to the connection task in ToCon::Stream.
Updates(begin_with_last) ==
    /\ vnstreams < MaxStreams
    /\ vnstreams' = vnstreams + 1
    /\ vreqs' = Append(vreqs, [tx |-> vnstreams + 1, last |-> begin_with_last])
    /\ vwant' = [vwant EXCEPT ![vnstreams + 1] = begin_with_last]
    /\ UNCHANGED <<vin, vpub, vnext_val, streams, sub_last, vchan, vclosed, vrecv, vpc,
                   vi, vmsg, vlog, vreg>>
    /\ UNCHANGED OthersV

\* connection: a frame from the publisher (subscriber.rs 492-502): Message(id)
\* sets next_val (432) and the frame after it, whatever it holds, enters
\* handle_val; a frame that does not decode as a control message ends the
\* connection (431).
ValFromPub ==
    /\ vpc = "select"
    /\ vin # <<>>
    /\ vin' = Tail(vin)
    /\ IF vnext_val
       THEN /\ vnext_val' = FALSE
            /\ vmsg' = Head(vin).n
            /\ vi' = 1
            /\ vpc' = "val"
            /\ vlog' = Append(vlog, Head(vin).n)
       ELSE /\ vnext_val' = Head(vin).hdr
            /\ vpc' = IF Head(vin).hdr THEN vpc ELSE "closed"
            /\ UNCHANGED <<vmsg, vi, vlog>>
    /\ UNCHANGED <<vpub, vreqs, streams, sub_last, vchan, vclosed, vrecv, vnstreams, vreg,
                   vwant>>
    /\ UNCHANGED OthersV

\* handle_val with every stream going to the next one whatever the send
\* returned.
NextStreamSkip(i, ok) == i + 1

\* handle_val (subscriber.rs 381-382): the index after a send.
NextStream(i, ok) == IF ok THEN i + 1 ELSE i

RemoveAt(q, i) == SubSeq(q, 1, i - 1) \o SubSeq(q, i + 1, Len(q))

\* handle_val: one turn of the loop over sub.streams (subscriber.rs 379-384).
\* The send waits while the channel is full and fails when the receiver is gone.
HandleValSend ==
    /\ vpc = "val"
    /\ vi <= Len(streams)
    /\ LET s == streams[vi]
           ok == ~vclosed[s]
       IN /\ vclosed[s] \/ StreamHasRoom(vchan[s])
          /\ vchan' = IF ok THEN [vchan EXCEPT ![s] = Append(@, vmsg)] ELSE vchan
          /\ streams' = IF ok THEN streams ELSE RemoveAt(streams, vi)
          /\ vi' = NextStream(vi, ok)
    /\ UNCHANGED <<vin, vpub, vnext_val, vreqs, sub_last, vclosed, vrecv, vnstreams, vpc,
                   vmsg, vlog, vreg, vwant>>
    /\ UNCHANGED OthersV

\* handle_val: the loop is over, sub.last = msg (subscriber.rs 385).
HandleValDone ==
    /\ vpc = "val"
    /\ vi > Len(streams)
    /\ sub_last' = vmsg
    /\ vpc' = "select"
    /\ UNCHANGED <<vin, vpub, vnext_val, vreqs, streams, vchan, vclosed, vrecv,
                   vnstreams, vi, vmsg, vlog, vreg, vwant>>
    /\ UNCHANGED OthersV

\* connection: ToCon::Stream (subscriber.rs 512-524): with `last` the held value
\* is sent first, and the sender is kept unless that send failed.
ConStream ==
    /\ vpc = "select"
    /\ vreqs # <<>>
    /\ LET req == Head(vreqs)
           s == req.tx
           add == ~(req.last /\ vclosed[s])
       IN /\ ~req.last \/ vclosed[s] \/ StreamHasRoom(vchan[s])
          /\ vchan' = IF req.last /\ ~vclosed[s]
                      THEN [vchan EXCEPT ![s] = Append(@, sub_last)] ELSE vchan
          /\ streams' = IF add THEN Append(streams, s) ELSE streams
          /\ vreg' = IF add THEN [vreg EXCEPT ![s] = Len(vlog)] ELSE vreg
    /\ vreqs' = Tail(vreqs)
    /\ UNCHANGED <<vin, vpub, vnext_val, sub_last, vclosed, vrecv, vnstreams, vpc, vi,
                   vmsg, vlog, vwant>>
    /\ UNCHANGED OthersV

\* The consumer of stream s takes the next value.
StreamNext(s) ==
    /\ s <= vnstreams
    /\ ~vclosed[s]
    /\ vchan[s] # <<>>
    /\ vrecv' = [vrecv EXCEPT ![s] = Append(@, Head(vchan[s]))]
    /\ vchan' = [vchan EXCEPT ![s] = Tail(@)]
    /\ UNCHANGED <<vin, vpub, vnext_val, vreqs, streams, sub_last, vclosed, vnstreams,
                   vpc, vi, vmsg, vlog, vreg, vwant>>
    /\ UNCHANGED OthersV

\* The consumer of stream s drops it.
StreamDrop(s) ==
    /\ s <= vnstreams
    /\ ~vclosed[s]
    /\ vclosed' = [vclosed EXCEPT ![s] = TRUE]
    /\ vchan' = [vchan EXCEPT ![s] = <<>>]
    /\ UNCHANGED <<vin, vpub, vnext_val, vreqs, streams, sub_last, vrecv, vnstreams, vpc,
                   vi, vmsg, vlog, vreg, vwant>>
    /\ UNCHANGED OthersV

NextV ==
    \/ \E h \in BOOLEAN : Publish(h)
    \/ \E l \in BOOLEAN : Updates(l)
    \/ ValFromPub
    \/ HandleValSend
    \/ HandleValDone
    \/ ConStream
    \/ \E s \in StreamIds : StreamNext(s)
    \/ \E s \in StreamIds : StreamDrop(s)

\* How many of the values in vlog handle_val has offered to stream s: all of
\* them, or all but the current one while the loop has not reached s.
Offered(s) ==
    IF vpc = "val" /\ \E j \in vi..Len(streams) : streams[j] = s
    THEN Len(vlog) - 1 ELSE Len(vlog)

\* What stream s is due: the value held when it was registered if it asked for
\* it, then the values received since, in order.
Due(s) ==
    (IF vwant[s] THEN <<vlog[vreg[s]]>> ELSE <<>>) \o SubSeq(vlog, vreg[s] + 1, Offered(s))

IsPrefix(p, q) == Len(p) <= Len(q) /\ SubSeq(q, 1, Len(p)) = p

\* C1: while the connection is open, or after it ended, a registered stream
\* that is open has taken in, or holds in its channel,
\* exactly the values due to it: the value held at registration when
\* begin_with_last was set, then every value the task received afterwards, in
\* the order received; a stream its consumer dropped got a prefix of that, and
\* a stream not registered got nothing.
C1_StreamLosslessOrdered ==
    \A s \in StreamIds :
        IF vreg[s] = 0
        THEN vrecv[s] = <<>> /\ vchan[s] = <<>>
        ELSE IF vclosed[s]
             THEN IsPrefix(vrecv[s], Due(s))
             ELSE vrecv[s] \o vchan[s] = Due(s) /\ s \in Range(streams)

\* C1 witness: a stream registered with begin_with_last while value 2 was held,
\* and one registered without it before value 2, have both taken values 2 and 4
\* over the open connection.
C1_Witness ==
    /\ vpc = "select"
    /\ vlog = <<0, 2, 4>>
    /\ \E s, t \in StreamIds :
          /\ vwant[s] /\ vreg[s] = 2 /\ vrecv[s] = <<2, 4>>
          /\ ~vwant[t] /\ vreg[t] = 1 /\ vrecv[t] = <<2, 4>>

\* ========================================================================
\* Part X: Value (netidx-netproto/src/value.rs): Typ::get, Typ::parse,
\* Value::cast, the arithmetic operators and Pack for Value.  The inputs are
\* drawn by the initial state and each action applies one function to them.
\* Integer widths, float precision and the time units are scaled down.
\* ========================================================================

\* The bits of u32 and i32, scaled down
W32 == 3
\* The bits of u64 and i64, scaled down
W64 == 5
\* The significant bits of an f32, scaled down (fewer than W32)
Mant32 == 2
\* The significant bits of an f64, scaled down (between W32 and W64)
Mant64 == 4
\* Nanoseconds per second, scaled down
NanosPerSec == 2
\* Milliseconds per second, scaled down
MillisPerSec == 2

RECURSIVE Pow2(_)
Pow2(k) == IF k = 0 THEN 1 ELSE 2 * Pow2(k - 1)

UMax(w) == Pow2(w) - 1
IMax(w) == Pow2(w - 1) - 1
IMin(w) == 0 - Pow2(w - 1)

\* `x as uN` and `x as iN` between integers: two's complement truncation.
WrapU(x, w) == x % Pow2(w)
WrapI(x, w) == ((x + Pow2(w - 1)) % Pow2(w)) - Pow2(w - 1)

Abs(x) == IF x < 0 THEN 0 - x ELSE x

\* The quotient p / q (q > 0) rounded to the nearest integer, ties to even.
RoundDiv(p, q) ==
    LET f == p \div q
        r == p % q
    IN IF 2 * r > q \/ (2 * r = q /\ f % 2 = 1) THEN f + 1 ELSE f

RECURSIVE BitLen(_)
BitLen(n) == IF n = 0 THEN 0 ELSE 1 + BitLen(n \div 2)

\* n rounded to m significant bits, ties to even.
RoundM(n, m) ==
    LET a == Abs(n)
        step == IF BitLen(a) > m THEN Pow2(BitLen(a) - m) ELSE 1
        r == RoundDiv(a, step) * step
    IN IF n < 0 THEN 0 - r ELSE r

\* A Value (value.rs 193-233): tag is the variant; n is the integer, the
\* seconds of a DateTime or Duration, or a finite float in halves; f is the
\* nanoseconds, or the class of a float (0 finite, 1 NaN, 2 +inf, 3 -inf); s is
\* the text of a String or Error, or the bytes of a Bytes, as a sequence.
Val(tag, n, f, s) == [tag |-> tag, n |-> n, f |-> f, s |-> s, b |-> <<>>]

Unit(tag) == Val(tag, 0, 0, <<>>)

\* Value::Bytes: the bytes are kept apart from the text of a String.
BytesVal(b) == [tag |-> "Bytes", n |-> 0, f |-> 0, s |-> <<>>, b |-> b]

IntTags32 == {"U32", "V32", "I32", "Z32"}
IntTags64 == {"U64", "V64", "I64", "Z64"}
UnsignedTags == {"U32", "V32", "U64", "V64"}
IntTags == IntTags32 \cup IntTags64
FloatTags == {"F32", "F64"}

\* Typ (value.rs 18-36)
Typs == IntTags \cup FloatTags \cup {"DateTime", "Duration", "Bool", "String", "Bytes", "Result"}

\* Typ::get (value.rs 79-99); "None" for Null.
TypGet(v) ==
    CASE v.tag \in {"True", "False"} -> "Bool"
      [] v.tag \in {"Ok", "Error"} -> "Result"
      [] v.tag = "Null" -> "None"
      [] OTHER -> v.tag

Width(tag) == IF tag \in IntTags32 THEN W32 ELSE W64

\* The integer x as the integer type tag (`as`).
AsInt(x, tag) == IF tag \in UnsignedTags THEN WrapU(x, Width(tag)) ELSE WrapI(x, Width(tag))

MinOf(tag) == IF tag \in UnsignedTags THEN 0 ELSE IMin(Width(tag))
MaxOf(tag) == IF tag \in UnsignedTags THEN UMax(Width(tag)) ELSE IMax(Width(tag))

\* The largest finite f32 and f64, in halves: above every integer of the model,
\* the f32 one below the f64 one.
FMax(tag) == IF tag = "F32" THEN Pow2(W64 + 3) ELSE Pow2(W64 + 5)

Mant(tag) == IF tag = "F32" THEN Mant32 ELSE Mant64

\* The float of type tag nearest to h halves: rounded to the mantissa, infinite
\* past the largest finite value.
Float(tag, h) ==
    LET r == RoundM(h, Mant(tag))
    IN IF r > FMax(tag) THEN Val(tag, 0, 2, <<>>)
       ELSE IF r < 0 - FMax(tag) THEN Val(tag, 0, 3, <<>>)
       ELSE Val(tag, r, 0, <<>>)

NaN(tag) == Val(tag, 0, 1, <<>>)

\* `v as f32`, `v as f64` for an integer x.
IntToFloat(x, tag) == Float(tag, 2 * x)

\* `v as f32`, `v as f64` for a float v.
FloatToFloat(v, tag) == IF v.f = 0 THEN Float(tag, v.n) ELSE Val(tag, 0, v.f, <<>>)

\* trunc() of a finite float, as an integer.
Trunc(v) == IF v.n < 0 THEN 0 - ((0 - v.n) \div 2) ELSE v.n \div 2

\* `v as uN`, `v as iN` for a float v: NaN is 0, the rest saturates.
FloatToInt(v, tag) ==
    CASE v.f = 1 -> 0
      [] v.f = 2 -> MaxOf(tag)
      [] v.f = 3 -> MinOf(tag)
      [] OTHER -> IF Trunc(v) > MaxOf(tag) THEN MaxOf(tag)
                  ELSE IF Trunc(v) < MinOf(tag) THEN MinOf(tag) ELSE Trunc(v)

\* Results: Some(val), None and a panic; Option and anyhow::Result alike.
Some(v) == [kind |-> "some", val |-> v]
XNone == [kind |-> "none", val |-> Unit("Null")]
Panic == [kind |-> "panic", val |-> Unit("Null")]

DigitChars == <<"0", "1", "2", "3", "4", "5", "6", "7", "8", "9">>

\* to_string of a natural number, as a sequence of characters.
RECURSIVE Digits(_)
Digits(n) == IF n < 10 THEN <<DigitChars[n + 1]>> ELSE Digits(n \div 10) \o <<DigitChars[(n % 10) + 1]>>

\* to_string of an integer.
IntText(x) == IF x < 0 THEN <<"-">> \o Digits(0 - x) ELSE Digits(x)

\* Display of a float: NaN, inf, -inf, or the decimal number.
FloatText(v) ==
    CASE v.f = 1 -> <<"N", "a", "N">>
      [] v.f = 2 -> <<"i", "n", "f">>
      [] v.f = 3 -> <<"-", "i", "n", "f">>
      [] OTHER -> (IF v.n < 0 THEN <<"-">> ELSE <<>>) \o Digits(Abs(v.n) \div 2)
                     \o (IF v.n % 2 = 1 THEN <<".", "5">> ELSE <<>>)

\* Duration::as_secs_f64
AsSecsF64(d) == Float("F64", 2 * d.n + RoundDiv(2 * d.f, NanosPerSec))

\* Display of a Duration (value.rs 253, 849): the seconds and an s.
DurationText(d) == FloatText(AsSecsF64(d)) \o <<"s">>

\* Display of a DateTime, one text per instant: the seconds, the nanoseconds
\* and the zone.
DateTimeText(d) == IntText(d.n) \o <<".">> \o Digits(d.f) \o <<"U", "T", "C">>

\* str::trim for the blank.
RECURSIVE TrimStart(_)
TrimStart(s) == IF s # <<>> /\ Head(s) = " " THEN TrimStart(Tail(s)) ELSE s
RECURSIVE TrimEnd(_)
TrimEnd(s) == IF s # <<>> /\ s[Len(s)] = " " THEN TrimEnd(SubSeq(s, 1, Len(s) - 1)) ELSE s
Trim(s) == TrimEnd(TrimStart(s))

IsDigit(c) == \E i \in 1..10 : DigitChars[i] = c

\* The number a sequence of digits reads as, -1 if it is empty or holds
\* anything but digits.
RECURSIVE DigitsVal(_)
DigitsVal(s) ==
    IF s = <<>> \/ ~IsDigit(s[Len(s)]) THEN 0 - 1
    ELSE LET d == (CHOOSE i \in 1..10 : DigitChars[i] = s[Len(s)]) - 1
         IN IF Len(s) = 1 THEN d
            ELSE LET r == DigitsVal(SubSeq(s, 1, Len(s) - 1))
                 IN IF r < 0 THEN r ELSE 10 * r + d

\* str::parse for the integer type tag: an optional sign, digits, in range.
ParseInt(s, tag) ==
    LET neg == s # <<>> /\ Head(s) = "-"
        body == IF s # <<>> /\ Head(s) \in {"-", "+"} THEN Tail(s) ELSE s
        m == DigitsVal(body)
        x == IF neg THEN 0 - m ELSE m
    IN IF m < 0 \/ (neg /\ tag \in UnsignedTags) \/ x < MinOf(tag) \/ x > MaxOf(tag)
       THEN XNone ELSE Some(Val(tag, x, 0, <<>>))

\* str::parse for f32 and f64, for the texts of the model: an integer, NaN, inf.
ParseFloat(s, tag) ==
    LET neg == s # <<>> /\ Head(s) = "-"
        body == IF s # <<>> /\ Head(s) \in {"-", "+"} THEN Tail(s) ELSE s
        m == DigitsVal(body)
    IN CASE body = <<"N", "a", "N">> -> Some(NaN(tag))
         [] body = <<"i", "n", "f">> -> Some(Val(tag, 0, IF neg THEN 3 ELSE 2, <<>>))
         [] m >= 0 -> Some(Float(tag, IF neg THEN 0 - 2 * m ELSE 2 * m))
         [] OTHER -> XNone

\* Duration::from_secs_f32 and from_secs_f64 of the finite float v: a panic
\* when v is negative or its seconds do not fit u64.
FromSecsF(v) ==
    IF v.n < 0 \/ Trunc(v) > UMax(W64) THEN Panic
    ELSE Some(Val("Duration", Trunc(v), ((v.n % 2) * NanosPerSec) \div 2, <<>>))

\* The largest seconds of a NaiveDateTime, scaled down.
DtMax == Pow2(W64 - 2)

\* NaiveDateTime::from_timestamp_opt, then DateTime::from_utc
FromTimestampOpt(secs, nsecs) ==
    IF secs < 0 - DtMax \/ secs > DtMax \/ nsecs >= 2 * NanosPerSec
    THEN XNone ELSE Some(Val("DateTime", secs, nsecs, <<>>))

\* cast to Duration of a float (value.rs 953-972)
FloatToDuration(v) ==
    IF v.f # 0 THEN XNone
    ELSE IF v.n < 0 \/ v.n > IntToFloat(UMax(W64), v.tag).n THEN XNone
    ELSE FromSecsF(v)

\* cast to Duration of a DateTime (value.rs 973-977): timestamp() as f64 plus
\* timestamp_nanos() / 1_000_000_000 as f64; timestamp_nanos overflows i64 for
\* a far instant, which panics with overflow checks and wraps without.
DateTimeToDuration(d, checked) ==
    LET tn == d.n * NanosPerSec + d.f
        over == tn < IMin(W64) \/ tn > IMax(W64)
        w == WrapI(tn, W64)
        q == IF w < 0 THEN 0 - ((0 - w) \div NanosPerSec) ELSE w \div NanosPerSec
        dur == Float("F64", IntToFloat(d.n, "F64").n + IntToFloat(q, "F64").n)
    IN IF over /\ checked THEN Panic ELSE FromSecsF(dur)

\* i32::abs and i64::abs followed by `as u64` (value.rs 944-951): the minimum
\* overflows, which panics with overflow checks and wraps without.
AbsToDuration(v, checked) ==
    IF v.n = IMin(Width(v.tag))
    THEN IF checked THEN Panic ELSE Some(Val("Duration", WrapU(v.n, W64), 0, <<>>))
    ELSE Some(Val("Duration", Abs(v.n), 0, <<>>))

StartsWith(s, p) == Len(s) >= Len(p) /\ SubSeq(s, 1, Len(p)) = p

\* Typ::parse (value.rs 101-162) as cast uses it, for every Typ but Bytes, which
\* cast never parses; none of the texts of the model is an RFC 3339 or RFC 2822
\* date.  An Err is XNone.
Parse(typ, s) ==
    IF s \in {<<"n", "u", "l", "l">>, <<"N", "u", "l", "l">>} THEN Some(Unit("Null"))
    ELSE CASE typ \in IntTags -> ParseInt(s, typ)
           [] typ \in FloatTags -> ParseFloat(s, typ)
           [] typ = "DateTime" -> XNone
           [] typ = "Duration" ->
                 LET t == Trim(s)
                     n == IF t = <<>> THEN XNone
                          ELSE ParseFloat(SubSeq(t, 1, Len(t) - 1), "F64")
                 IN IF t = <<>> \/ t[Len(t)] # "s" \/ n.kind = "none" THEN XNone
                    ELSE FloatToDuration(n.val)
           [] typ = "Bool" ->
                 IF Trim(s) \in {<<"t", "r", "u", "e">>, <<"T", "r", "u", "e">>}
                 THEN Some(Unit("True"))
                 ELSE IF Trim(s) \in {<<"f", "a", "l", "s", "e">>, <<"F", "a", "l", "s", "e">>}
                 THEN Some(Unit("False"))
                 ELSE XNone
           [] typ = "String" -> Some(Val("String", 0, 0, s))
           [] typ = "Result" ->
                 LET t == Trim(s)
                 IN IF t \in {<<"o", "k">>, <<"O", "k">>} THEN Some(Unit("Ok"))
                    ELSE IF t \in {<<"e", "r", "r", "o", "r">>, <<"E", "r", "r", "o", "r">>}
                    THEN Some(Unit("Error"))
                    ELSE IF StartsWith(t, <<"e", "r", "r", "o", "r", ":">>)
                            \/ StartsWith(t, <<"E", "r", "r", "o", "r", ":">>)
                    THEN Some(Val("Error", 0, 0, Trim(SubSeq(t, 7, Len(t)))))
                    ELSE XNone

\* Value::cast to an integer type (value.rs 604-763).
CastInt(v, typ) ==
    CASE v.tag \in IntTags -> Some(Val(typ, AsInt(v.n, typ), 0, <<>>))
      [] v.tag \in FloatTags -> Some(Val(typ, FloatToInt(v, typ), 0, <<>>))
      [] v.tag = "DateTime" ->
            IF typ \in UnsignedTags THEN XNone ELSE Some(Val(typ, AsInt(v.n, typ), 0, <<>>))
      [] v.tag = "Duration" -> Some(Val(typ, AsInt(v.n, typ), 0, <<>>))
      [] v.tag = "String" -> Parse(typ, v.s)
      [] v.tag = "True" -> Some(Val(typ, 1, 0, <<>>))
      [] v.tag = "False" -> Some(Val(typ, 0, 0, <<>>))
      [] OTHER -> XNone

\* Value::cast to F32 and F64 (value.rs 764-812).
CastFloat(v, typ) ==
    CASE v.tag \in IntTags \cup {"DateTime", "Duration"} -> Some(IntToFloat(v.n, typ))
      [] v.tag \in FloatTags -> Some(FloatToFloat(v, typ))
      [] v.tag = "String" -> Parse(typ, v.s)
      [] v.tag = "True" -> Some(IntToFloat(1, typ))
      [] v.tag = "False" -> Some(IntToFloat(0, typ))
      [] OTHER -> XNone

\* Value::cast to Bool (value.rs 813-833).
CastBool(v) ==
    CASE v.tag \in IntTags -> Some(Unit(IF v.n > 0 THEN "True" ELSE "False"))
      [] v.tag \in FloatTags ->
            Some(Unit(IF v.f = 2 \/ (v.f = 0 /\ v.n > 0) THEN "True" ELSE "False"))
      [] v.tag = "String" -> Parse("Bool", v.s)
      [] v.tag \in {"True", "Ok"} -> Some(Unit("True"))
      [] v.tag \in {"False", "Null", "Error"} -> Some(Unit("False"))
      [] OTHER -> XNone

\* Value::cast to String (value.rs 834-858).
CastString(v) ==
    CASE v.tag \in IntTags -> Some(Val("String", 0, 0, IntText(v.n)))
      [] v.tag \in FloatTags -> Some(Val("String", 0, 0, FloatText(v)))
      [] v.tag = "DateTime" -> Some(Val("String", 0, 0, DateTimeText(v)))
      [] v.tag = "Duration" -> Some(Val("String", 0, 0, DurationText(v)))
      [] v.tag \in {"String", "Error"} -> Some(Val("String", 0, 0, v.s))
      [] v.tag = "True" -> Some(Val("String", 0, 0, <<"t", "r", "u", "e">>))
      [] v.tag = "False" -> Some(Val("String", 0, 0, <<"f", "a", "l", "s", "e">>))
      [] v.tag = "Null" -> Some(Val("String", 0, 0, <<"n", "u", "l", "l">>))
      [] v.tag = "Ok" -> Some(Val("String", 0, 0, <<"o", "k">>))
      [] OTHER -> XNone

\* Value::cast to Result (value.rs 860-880).
CastResult(v) ==
    CASE v.tag = "String" -> Parse("Result", v.s)
      [] v.tag = "Bytes" -> XNone
      [] v.tag = "Error" -> Some(v)
      [] OTHER -> Some(Unit("Ok"))

\* Value::cast to DateTime (value.rs 881-939); the fraction of a float, below
\* one, is 0 as u32.
CastDateTime(v) ==
    CASE v.tag \in IntTags -> FromTimestampOpt(WrapI(v.n, W64), 0)
      [] v.tag \in FloatTags ->
            IF v.f # 0 THEN XNone ELSE FromTimestampOpt(FloatToInt(v, "I64"), 0)
      [] v.tag = "DateTime" -> Some(v)
      [] v.tag = "Duration" -> FromTimestampOpt(WrapI(v.n, W64), v.f)
      [] v.tag = "String" -> Parse("DateTime", v.s)
      [] OTHER -> XNone

\* Value::cast to Duration (value.rs 940-988).
CastDuration(v, checked) ==
    CASE v.tag \in UnsignedTags -> Some(Val("Duration", v.n, 0, <<>>))
      [] v.tag \in IntTags \ UnsignedTags -> AbsToDuration(v, checked)
      [] v.tag \in FloatTags -> FloatToDuration(v)
      [] v.tag = "DateTime" -> DateTimeToDuration(v, checked)
      [] v.tag = "Duration" -> Some(v)
      [] v.tag = "String" -> Parse("Duration", v.s)
      [] OTHER -> XNone

\* Value::cast (value.rs 602-990); checked says whether the build checks
\* arithmetic overflow.
Cast(v, typ, checked) ==
    CASE typ \in IntTags -> CastInt(v, typ)
      [] typ \in FloatTags -> CastFloat(v, typ)
      [] typ = "Bool" -> CastBool(v)
      [] typ = "String" -> CastString(v)
      [] typ = "Bytes" -> XNone
      [] typ = "Result" -> CastResult(v)
      [] typ = "DateTime" -> CastDateTime(v)
      [] typ = "Duration" -> CastDuration(v, checked)

\* Value::Error with a message; the model keeps no message text.
ErrorV == Val("Error", 0, 0, <<"e">>)

\* The integer pairs the operators accept (value.rs 273-287 and the like): the
\* two variants of one width and sign, but not V64 with U64.
IntPair(l, r) ==
    /\ l.tag \in IntTags /\ r.tag \in IntTags
    /\ Width(l.tag) = Width(r.tag)
    /\ (l.tag \in UnsignedTags) = (r.tag \in UnsignedTags)
    /\ ~(l.tag = "V64" /\ r.tag = "U64")

\* The variant of the result of an accepted integer pair.
PairTag(l, r) ==
    IF l.tag = r.tag THEN l.tag
    ELSE CASE l.tag \in {"U32", "V32"} -> "U32"
           [] l.tag \in {"I32", "Z32"} -> "I32"
           [] l.tag \in {"U64", "V64"} -> "U64"
           [] OTHER -> "I64"

\* An integer result x of type tag: in range it is the value; out of range the
\* operator panics with overflow checks and wraps without.
IntResult(x, tag, checked) ==
    IF x < MinOf(tag) \/ x > MaxOf(tag)
    THEN IF checked THEN Panic ELSE Some(Val(tag, AsInt(x, tag), 0, <<>>))
    ELSE Some(Val(tag, x, 0, <<>>))

Sign(v) == IF v.f = 3 \/ (v.f = 0 /\ v.n < 0) THEN 0 - 1 ELSE 1

IsZero(v) == v.f = 0 /\ v.n = 0

Inf(tag, sign) == Val(tag, 0, IF sign < 0 THEN 3 ELSE 2, <<>>)

\* IEEE 754 +, -, *, / of two floats of one type, as f32 and f64 compute them.
FloatOp(op, l, r) ==
    LET t == l.tag
        rr == IF op = "sub" /\ r.f \in {2, 3} THEN Inf(t, 0 - Sign(r))
              ELSE IF op = "sub" THEN Val(t, 0 - r.n, r.f, <<>>) ELSE r
    IN IF l.f = 1 \/ r.f = 1 THEN NaN(t)
       ELSE CASE op \in {"add", "sub"} ->
                   IF l.f # 0 /\ rr.f # 0 THEN (IF l.f = rr.f THEN l ELSE NaN(t))
                   ELSE IF l.f # 0 THEN l
                   ELSE IF rr.f # 0 THEN rr
                   ELSE Float(t, l.n + rr.n)
              [] op = "mul" ->
                   IF l.f # 0 \/ r.f # 0
                   THEN (IF IsZero(l) \/ IsZero(r) THEN NaN(t) ELSE Inf(t, Sign(l) * Sign(r)))
                   ELSE Float(t, Sign(l) * Sign(r) * RoundDiv(Abs(l.n) * Abs(r.n), 2))
              [] op = "div" ->
                   IF l.f # 0 THEN (IF r.f # 0 THEN NaN(t) ELSE Inf(t, Sign(l) * Sign(r)))
                   ELSE IF r.f # 0 THEN Val(t, 0, 0, <<>>)
                   ELSE IF IsZero(r) THEN (IF IsZero(l) THEN NaN(t) ELSE Inf(t, Sign(l)))
                   ELSE Float(t, Sign(l) * Sign(r) * RoundDiv(2 * Abs(l.n), Abs(r.n)))

\* A Duration of nanos nanoseconds in all, as the checked operators of Duration
\* give it: a panic when it is negative or its seconds do not fit u64.
DurationOf(nanos) ==
    IF nanos < 0 \/ nanos \div NanosPerSec > UMax(W64) THEN Panic
    ELSE Some(Val("Duration", nanos \div NanosPerSec, nanos % NanosPerSec, <<>>))

TotalNanos(d) == d.n * NanosPerSec + d.f

\* Duration::mul_f32, mul_f64, div_f32, div_f64: from_secs_f of the product or
\* quotient, which panics unless that is finite, not negative and in range.
DurationFloat(op, d, s) ==
    LET secs == Float(s.tag, 2 * d.n + RoundDiv(2 * d.f, NanosPerSec))
        x == FloatOp(op, secs, s)
    IN IF x.f # 0 THEN Panic ELSE FromSecsF(x)

\* DateTime + Duration and DateTime - Duration (value.rs 290-295, 322-327):
\* chrono::Duration::from_std fails for a Duration past i64 milliseconds, and
\* the sum panics when it leaves the range of DateTime.
DateTimeShift(dt, d, sign) ==
    IF d.n > IMax(W64) \div MillisPerSec THEN Some(ErrorV)
    ELSE LET nanos == TotalNanos(dt) + sign * TotalNanos(d)
             secs == nanos \div NanosPerSec
         IN IF secs < 0 - DtMax \/ secs > DtMax THEN Panic
            ELSE Some(Val("DateTime", secs, nanos % NanosPerSec, <<>>))

\* The exact integer the operator op stands for.
Exact(op, a, b) ==
    CASE op = "add" -> a + b
      [] op = "sub" -> a - b
      [] op = "mul" -> a * b
      [] op = "div" -> IF (a < 0) = (b < 0) THEN Abs(a) \div Abs(b) ELSE 0 - (Abs(a) \div Abs(b))

\* Add, Sub, Mul and Div for Value (value.rs 268-404).
Arith(op, l, r, checked) ==
    CASE IntPair(l, r) ->
            IF (op = "sub" /\ l.tag \in UnsignedTags /\ l.n < r.n) \/ (op = "div" /\ r.n <= 0)
            THEN Some(ErrorV)
            ELSE IntResult(Exact(op, l.n, r.n), PairTag(l, r), checked)
      [] l.tag \in FloatTags /\ r.tag = l.tag -> Some(FloatOp(op, l, r))
      [] l.tag = "DateTime" /\ r.tag = "Duration" /\ op \in {"add", "sub"} ->
            DateTimeShift(l, r, IF op = "add" THEN 1 ELSE 0 - 1)
      [] l.tag = "Duration" /\ r.tag = "Duration" /\ op \in {"add", "sub"} ->
            DurationOf(IF op = "add" THEN TotalNanos(l) + TotalNanos(r)
                       ELSE TotalNanos(l) - TotalNanos(r))
      [] l.tag = "Duration" /\ r.tag \in {"U32", "V32"} /\ op = "mul" ->
            DurationOf(TotalNanos(l) * r.n)
      [] l.tag \in {"U32", "V32"} /\ r.tag = "Duration" /\ op = "mul" ->
            DurationOf(TotalNanos(r) * l.n)
      [] l.tag = "Duration" /\ r.tag \in {"U32", "V32"} /\ op = "div" ->
            IF r.n = 0 THEN Panic ELSE DurationOf(TotalNanos(l) \div r.n)
      [] l.tag = "Duration" /\ r.tag \in FloatTags /\ op \in {"mul", "div"} ->
            DurationFloat(op, l, r)
      [] l.tag \in FloatTags /\ r.tag = "Duration" /\ op = "mul" ->
            DurationFloat(op, r, l)
      [] OTHER -> Some(ErrorV)

\* The payload bits of one byte of a varint (7 in LEB128), scaled down
VarBits == 3

\* k bytes, big endian, of the integer n in two's complement (put_u32, put_i64
\* and the like).
RECURSIVE BE(_, _)
BE(n, k) == IF k = 0 THEN <<>> ELSE BE(n \div 256, k - 1) \o <<n % 256>>

\* The unsigned and the signed integer a big endian byte sequence holds.
RECURSIVE UnBE(_)
UnBE(b) == IF b = <<>> THEN 0 ELSE 256 * UnBE(SubSeq(b, 1, Len(b) - 1)) + b[Len(b)]

RECURSIVE UnBESigned(_)
UnBESigned(b) ==
    IF Len(b) = 1 THEN (IF b[1] >= 128 THEN b[1] - 256 ELSE b[1])
    ELSE 256 * UnBESigned(SubSeq(b, 1, Len(b) - 1)) + b[Len(b)]

\* pack::encode_varint: LEB128, low group first, the flag bit on every byte
\* but the last.
RECURSIVE Varint(_)
Varint(n) ==
    IF n < Pow2(VarBits) THEN <<n>>
    ELSE <<(n % Pow2(VarBits)) + Pow2(VarBits)>> \o Varint(n \div Pow2(VarBits))

\* pack::varint_len
RECURSIVE VarintLen(_)
VarintLen(n) == IF n < Pow2(VarBits) THEN 1 ELSE 1 + VarintLen(n \div Pow2(VarBits))

\* pack::decode_varint on the bytes b: the number and the bytes left, or an
\* error when b ends inside the number.
RECURSIVE UnVarint(_)
UnVarint(b) ==
    IF b = <<>> THEN [ok |-> FALSE, n |-> 0, rest |-> <<>>]
    ELSE IF Head(b) < Pow2(VarBits) THEN [ok |-> TRUE, n |-> Head(b), rest |-> Tail(b)]
    ELSE LET r == UnVarint(Tail(b))
         IN [ok |-> r.ok, n |-> (Head(b) - Pow2(VarBits)) + Pow2(VarBits) * r.n,
             rest |-> r.rest]

\* pack::i32_zz and i64_zz, and i32_uzz and i64_uzz
ZigZag(n) == IF n >= 0 THEN 2 * n ELSE (0 - 2 * n) - 1
UnZigZag(z) == IF z % 2 = 0 THEN z \div 2 ELSE 0 - ((z + 1) \div 2)

\* The wire tag of each variant (value.rs 488-563)
TagOf(v) ==
    CASE v.tag = "U32" -> 0 [] v.tag = "V32" -> 1 [] v.tag = "I32" -> 2
      [] v.tag = "Z32" -> 3 [] v.tag = "U64" -> 4 [] v.tag = "V64" -> 5
      [] v.tag = "I64" -> 6 [] v.tag = "Z64" -> 7 [] v.tag = "F32" -> 8
      [] v.tag = "F64" -> 9 [] v.tag = "DateTime" -> 10 [] v.tag = "Duration" -> 11
      [] v.tag = "String" -> 12 [] v.tag = "Bytes" -> 13 [] v.tag = "True" -> 14
      [] v.tag = "False" -> 15 [] v.tag = "Null" -> 16 [] v.tag = "Ok" -> 17
      [] v.tag = "Error" -> 18

TagNames ==
    <<"U32", "V32", "I32", "Z32", "U64", "V64", "I64", "Z64", "F32", "F64", "DateTime",
      "Duration", "String", "Bytes", "True", "False", "Null", "Ok", "Error">>

\* The characters of the model and their UTF-8 bytes.
Utf8Chars == <<" ", "-", ".", "0", "1", "2", "3", "4", "5", "6", "7", "8", "9",
               "O", "e", "k", "l", "n", "o", "r", "s", "t", "u", "x">>

Utf8Codes == <<32, 45, 46, 48, 49, 50, 51, 52, 53, 54, 55, 56, 57,
               79, 101, 107, 108, 110, 111, 114, 115, 116, 117, 120>>

\* str::as_bytes
Utf8(s) == [i \in 1..Len(s) |-> Utf8Codes[CHOOSE j \in 1..Len(Utf8Chars) : Utf8Chars[j] = s[i]]]

\* str::from_utf8 succeeds
IsUtf8(b) == \A i \in 1..Len(b) : \E j \in 1..Len(Utf8Codes) : Utf8Codes[j] = b[i]

FromUtf8(b) == [i \in 1..Len(b) |-> Utf8Chars[CHOOSE j \in 1..Len(Utf8Codes) : Utf8Codes[j] = b[i]]]

\* The bits of a float in k bytes: the class, then the halves.
FloatBits(v, k) == <<v.f>> \o BE(v.n, k - 1)

\* encoded_len with every integer counted at its full width, varints included.
EncodedLenFixed(v) ==
    1 + CASE v.tag \in {"U32", "I32", "F32", "V32", "Z32"} -> 4
          [] v.tag \in {"U64", "I64", "F64", "V64", "Z64"} -> 8
          [] v.tag \in {"DateTime", "Duration"} -> 12
          [] v.tag \in {"String", "Error"} -> VarintLen(Len(v.s)) + Len(v.s)
          [] v.tag = "Bytes" -> VarintLen(Len(v.b)) + Len(v.b)
          [] OTHER -> 0

\* Pack::encoded_len for Value (value.rs 466-486)
EncodedLen(v) ==
    1 + CASE v.tag \in {"U32", "I32", "F32"} -> 4
          [] v.tag \in {"U64", "I64", "F64"} -> 8
          [] v.tag \in {"V32", "V64"} -> VarintLen(v.n)
          [] v.tag \in {"Z32", "Z64"} -> VarintLen(ZigZag(v.n))
          [] v.tag \in {"DateTime", "Duration"} -> 12
          [] v.tag \in {"String", "Error"} -> VarintLen(Len(v.s)) + Len(v.s)
          [] v.tag = "Bytes" -> VarintLen(Len(v.b)) + Len(v.b)
          [] OTHER -> 0

\* Pack::encode for Value (value.rs 490-563): the bytes written.
Encode(v) ==
    <<TagOf(v)>> \o
    CASE v.tag \in {"U32", "I32"} -> BE(v.n, 4)
      [] v.tag \in {"U64", "I64"} -> BE(v.n, 8)
      [] v.tag \in {"V32", "V64"} -> Varint(v.n)
      [] v.tag \in {"Z32", "Z64"} -> Varint(ZigZag(v.n))
      [] v.tag = "F32" -> FloatBits(v, 4)
      [] v.tag = "F64" -> FloatBits(v, 8)
      [] v.tag \in {"DateTime", "Duration"} -> BE(v.n, 8) \o BE(v.f, 4)
      [] v.tag \in {"String", "Error"} -> Varint(Len(v.s)) \o Utf8(v.s)
      [] v.tag = "Bytes" -> Varint(Len(v.b)) \o v.b
      [] OTHER -> <<>>

\* Pack::decode for Value (value.rs 565-588) on the bytes b: the value and the
\* bytes left unread; "panic" when a read runs past the end of b, "err" for an
\* unknown tag or a varint cut short.
Decode(b) ==
    LET bad(k) == [kind |-> k, val |-> Unit("Null"), rest |-> <<>>]
        got(v, rest) == [kind |-> "some", val |-> v, rest |-> rest]
        body == Tail(b)
        fixed(k) == SubSeq(body, 1, k)
        after(k) == SubSeq(body, k + 1, Len(body))
        uv == UnVarint(body)
        t == IF b # <<>> /\ Head(b) \in 0..18 THEN TagNames[Head(b) + 1] ELSE "?"
        need == CASE t \in {"U32", "I32", "F32"} -> 4
                  [] t \in {"U64", "I64", "F64"} -> 8
                  [] t \in {"DateTime", "Duration"} -> 12
                  [] OTHER -> 0
    IN IF b = <<>> \/ (t # "?" /\ Len(body) < need) THEN bad("panic")
       ELSE CASE t = "?" -> bad("err")
              [] t \in {"U32", "U64"} -> got(Val(t, UnBE(fixed(need)), 0, <<>>), after(need))
              [] t \in {"I32", "I64"} ->
                    got(Val(t, UnBESigned(fixed(need)), 0, <<>>), after(need))
              [] t \in {"F32", "F64"} ->
                    got(Val(t, UnBESigned(SubSeq(body, 2, need)), body[1], <<>>), after(need))
              [] t \in {"DateTime", "Duration"} ->
                    got(Val(t, IF t = "DateTime" THEN UnBESigned(fixed(8)) ELSE UnBE(fixed(8)),
                            UnBE(SubSeq(body, 9, 12)), <<>>), after(12))
              [] t \in {"V32", "V64"} ->
                    IF uv.ok THEN got(Val(t, AsInt(uv.n, t), 0, <<>>), uv.rest) ELSE bad("err")
              [] t \in {"Z32", "Z64"} ->
                    IF uv.ok THEN got(Val(t, UnZigZag(AsInt(uv.n, IF t = "Z32" THEN "U32" ELSE "U64")),
                                          0, <<>>), uv.rest)
                    ELSE bad("err")
              [] t \in {"String", "Bytes", "Error"} ->
                    IF ~uv.ok THEN bad("err")
                    ELSE IF Len(uv.rest) < uv.n THEN bad("err")
                    ELSE IF t = "Bytes"
                         THEN got(BytesVal(SubSeq(uv.rest, 1, uv.n)),
                                  SubSeq(uv.rest, uv.n + 1, Len(uv.rest)))
                    ELSE IF ~IsUtf8(SubSeq(uv.rest, 1, uv.n)) THEN bad("err")
                    ELSE got(Val(t, 0, 0, FromUtf8(SubSeq(uv.rest, 1, uv.n))),
                             SubSeq(uv.rest, uv.n + 1, Len(uv.rest)))
              [] OTHER -> got(Unit(t), body)

\* The values drawn: of every variant, the ends of each range and values
\* between, the floats that are not numbers, the texts parse tells apart.
XVals ==
    {Val(t, n, 0, <<>>) : t \in {"U32", "V32"}, n \in {0, 1, UMax(W32)}}
    \cup {Val(t, n, 0, <<>>) : t \in {"I32", "Z32"}, n \in {IMin(W32), 0 - 1, IMax(W32)}}
    \cup {Val(t, n, 0, <<>>) : t \in {"U64", "V64"}, n \in {0, 2, UMax(W64)}}
    \cup {Val(t, n, 0, <<>>) : t \in {"I64", "Z64"}, n \in {IMin(W64), 1, IMax(W64)}}
    \cup {Val(t, 0, f, <<>>) : t \in FloatTags, f \in {1, 2, 3}}
    \cup {Val(t, n, 0, <<>>) : t \in FloatTags, n \in {0 - 1, 0, 3}}
    \cup {IntToFloat(UMax(W64), "F32"), IntToFloat(UMax(W64), "F64")}
    \cup {Val("DateTime", 0 - 1, 1, <<>>), Val("DateTime", 1, 0, <<>>),
          Val("DateTime", DtMax, 0, <<>>)}
    \cup {Val("Duration", 0, 0, <<>>), Val("Duration", 1, 1, <<>>),
          Val("Duration", UMax(W64), 1, <<>>)}
    \cup {Val("String", 0, 0, s) :
             s \in {<<"n", "u", "l", "l">>, <<"1">>, <<"-", "1">>, <<"1", "s">>,
                    <<"t", "r", "u", "e">>, <<" ", "O", "k">>, <<"x">>}}
    \cup {BytesVal(<<>>), BytesVal(<<1, 2>>)}
    \cup {Unit("True"), Unit("False"), Unit("Null"), Unit("Ok"), Unit("Error"), ErrorV}

\* The bytes that follow an encoded value in the buffer.
Rests == {<<>>, <<16>>, <<200, 1>>}

ArithOps == {"add", "sub", "mul", "div"}

\* The second input: a Typ for cast, a value for an operator, the bytes after
\* the value for decode.
XArg(k, t, w, s) == [k |-> k, t |-> t, w |-> w, s |-> s]

XArgs ==
    {XArg("typ", t, Unit("Null"), <<>>) : t \in Typs}
    \cup {XArg("val", "U32", w, <<>>) : w \in XVals}
    \cup {XArg("rest", "U32", Unit("Null"), s) : s \in Rests}

NoDecode == [kind |-> "none", val |-> Unit("Null"), rest |-> <<>>]

\* Before any part X function is applied; the inputs are fixed for the other
\* parts' specifications.
InitXIdle ==
    /\ xv = Unit("Null")
    /\ xarg = XArg("typ", "U32", Unit("Null"), <<>>)
    /\ xop = "idle"
    /\ xres = XNone
    /\ xbuf = <<>>
    /\ xdec = NoDecode

InitX ==
    /\ xv \in XVals
    /\ xarg \in XArgs
    /\ xop = "none"
    /\ xres = XNone
    /\ xbuf = <<>>
    /\ xdec = NoDecode

\* v.cast(typ)
XCast(checked) ==
    /\ xop = "none"
    /\ xarg.k = "typ"
    /\ xop' = "cast"
    /\ xres' = Cast(xv, xarg.t, checked)
    /\ UNCHANGED <<xv, xarg, xbuf, xdec>>
    /\ UNCHANGED OthersX

\* l + r, l - r, l * r, l / r
XArith(op, checked) ==
    /\ xop = "none"
    /\ xarg.k = "val"
    /\ xop' = op
    /\ xres' = Arith(op, xv, xarg.w, checked)
    /\ UNCHANGED <<xv, xarg, xbuf, xdec>>
    /\ UNCHANGED OthersX

\* v.encode(&mut buf) into a buffer that then takes the bytes of the model,
\* and Value::decode(&mut buf)
XPack ==
    /\ xop = "none"
    /\ xarg.k = "rest"
    /\ xop' = "pack"
    /\ xbuf' = Encode(xv) \o xarg.s
    /\ xdec' = Decode(xbuf')
    /\ UNCHANGED <<xv, xarg, xres>>
    /\ UNCHANGED OthersX

NextX ==
    \/ \E ck \in BOOLEAN : XCast(ck)
    \/ \E op \in ArithOps, ck \in BOOLEAN : XArith(op, ck)
    \/ XPack

\* C16 as stated: cast does not panic and returns None or a value whose
\* Typ::get is the type asked for.
C16_CastTotalAndTyped ==
    xop = "cast" =>
        /\ xres.kind # "panic"
        /\ xres.kind = "some" => TypGet(xres.val) = xarg.t

\* C17 as stated: casting a value to its own type returns the value.
C17_CastToOwnType ==
    (xop = "cast" /\ TypGet(xv) = xarg.t) => xres = Some(xv)

\* The exact result of an operator on an accepted integer pair does not fit the
\* result's type, or the divisor is zero.
OutOfRange ==
    /\ IntPair(xv, xarg.w)
    /\ \/ xop = "div" /\ xarg.w.n = 0
       \/ /\ ~(xop = "div" /\ xarg.w.n = 0)
          /\ LET x == Exact(xop, xv.n, xarg.w.n)
             IN x < MinOf(PairTag(xv, xarg.w)) \/ x > MaxOf(PairTag(xv, xarg.w))

\* C18 as stated: each operator returns a Value, and returns Value::Error when
\* the exact result is out of range, the divisor is zero or the variants do not
\* go together.
C18_ArithNeverAborts ==
    xop \in ArithOps =>
        /\ xres.kind = "some"
        /\ OutOfRange => xres.val.tag = "Error"

\* Two integers of one width and signedness, one of them the fixed-width
\* variant and the other the varint variant.
MixedPair(l, r) ==
    /\ l.tag \in IntTags /\ r.tag \in IntTags
    /\ Width(l.tag) = Width(r.tag)
    /\ (l.tag \in UnsignedTags) = (r.tag \in UnsignedTags)
    /\ l.tag # r.tag

\* What an operator gave, variants aside: a panic, Value::Error, or a number.
Outcome(res) ==
    [kind |-> res.kind,
     err |-> res.kind = "some" /\ res.val.tag = "Error",
     n |-> IF res.kind = "some" /\ res.val.tag # "Error" THEN res.val.n ELSE 0]

\* C33 as stated: an operator applied to a fixed-width and a varint integer of
\* one width and signedness gives what it gives when the two numbers, each in
\* its place, have their variants exchanged: Error for both or the same
\* number for both.
C33_VariantRolesExchange ==
    (xop \in ArithOps /\ MixedPair(xv, xarg.w)) =>
        \E ck \in BOOLEAN :
            /\ xres = Arith(xop, xv, xarg.w, ck)
            /\ Outcome(xres) =
                  Outcome(Arith(xop, Val(xarg.w.tag, xv.n, 0, <<>>),
                                Val(xv.tag, xarg.w.n, 0, <<>>), ck))

\* C19: decoding the bytes of a value followed by any bytes returns the value
\* and leaves those bytes; encode writes encoded_len bytes, the first of them
\* the tag of the variant, between 0 and 18.
C19_PackRoundTrip ==
    xop = "pack" =>
        /\ xdec = [kind |-> "some", val |-> xv, rest |-> xarg.s]
        /\ Len(xbuf) = EncodedLen(xv) + Len(xarg.s)
        /\ Head(xbuf) = TagOf(xv) /\ Head(xbuf) \in 0..18
        /\ TagNames[Head(xbuf) + 1] = xv.tag

\* C19 witness: a negative Z64 whose varint takes more than one byte was
\* decoded with bytes left behind it.
C19_Witness ==
    /\ xop = "pack"
    /\ xv.tag = "Z64" /\ xv.n < 0
    /\ EncodedLen(xv) > 2
    /\ xarg.s = <<200, 1>>
    /\ xdec.rest = <<200, 1>>

\* ========================================================================
\* Part L: server_loop (resolver_server.rs 506-551), with the sessions it
\* spawns as far as their main loops decide whether they end:
\* client_loop_write (77-192) and client_loop_read (365-395).
\* ========================================================================

\* cfg.max_connections
MaxConnections == 1

\* The connections the listener accepts in all.
MaxAccepts == 3

LIds == 1..MaxAccepts

InitL ==
    /\ lstop = FALSE
    /\ lpc = "select"
    /\ lstops = {}
    /\ lsig = {}
    /\ lopen = {}
    /\ lsess = [i \in LIds |-> "none"]
    /\ lkind = [i \in LIds |-> "read"]
    /\ lact = [i \in LIds |-> FALSE]
    /\ lcon = [i \in LIds |-> TRUE]

\* A limit that is never found exceeded.
OverLimitNever(open) == FALSE

\* ctracker.num_open() > max_connections
OverLimit(open) == Cardinality(open) > MaxConnections

\* Server::drop, or the owner of the Server sends the stop signal.
ServerStop ==
    /\ ~lstop
    /\ lstop' = TRUE
    /\ UNCHANGED <<lpc, lstops, lsig, lopen, lsess, lkind, lact, lcon>>
    /\ UNCHANGED OthersL

\* server_loop, select_biased!: `_ = stop` (514-519): every sender of
\* client_stops is sent and the loop returns.
LoopStop ==
    /\ lpc = "select"
    /\ lstop
    /\ lsig' = lsig \cup lstops
    /\ lstops' = {}
    /\ lpc' = "returned"
    /\ UNCHANGED <<lstop, lopen, lsess, lkind, lact, lcon>>
    /\ UNCHANGED OthersL

\* server_loop, select_biased!: `cl = listener.accept()` (520-543), taken only
\* when stop is not ready: the session is spawned, then the loop on num_open.
Accept(i) ==
    /\ lpc = "select"
    /\ ~lstop
    /\ lsess[i] = "none"
    /\ \A j \in LIds : j < i => lsess[j] # "none"
    /\ lstops' = lstops \cup {i}
    /\ lopen' = lopen \cup {i}
    /\ lsess' = [lsess EXCEPT ![i] = "hello"]
    /\ lpc' = "wait"
    /\ UNCHANGED <<lstop, lsig, lkind, lact, lcon>>
    /\ UNCHANGED OthersL

\* `while ctracker.num_open() > max_connections { sleep(10ms) }` (544-546):
\* the test fails and the loop goes back to select_biased!.
WaitCheck ==
    /\ lpc = "wait"
    /\ ~OverLimit(lopen)
    /\ lpc' = "select"
    /\ UNCHANGED <<lstop, lstops, lsig, lopen, lsess, lkind, lact, lcon>>
    /\ UNCHANGED OthersL

\* The spawned task after hello_client has returned: ctracker.close (539).
SessionEnd(i) ==
    /\ lsess' = [lsess EXCEPT ![i] = "done"]
    /\ lopen' = lopen \ {i}

\* hello_client (433-487): the hello is exchanged under hello_timeout and the
\* session enters client_loop_read or client_loop_write.
HelloClient(i, kind) ==
    /\ lsess[i] = "hello"
    /\ lsess' = [lsess EXCEPT ![i] = "main"]
    /\ lkind' = [lkind EXCEPT ![i] = kind]
    /\ UNCHANGED <<lstop, lpc, lstops, lsig, lopen, lact, lcon>>
    /\ UNCHANGED OthersL

\* hello_client: the hello fails or times out.
HelloClientFail(i) ==
    /\ lsess[i] = "hello"
    /\ SessionEnd(i)
    /\ UNCHANGED <<lstop, lpc, lstops, lsig, lkind, lact, lcon>>
    /\ UNCHANGED OthersL

HelloClientEnd(i) == HelloClientFail(i) \/ \E kind \in {"read", "write"} : HelloClient(i, kind)

\* client_loop_read 376, client_loop_write 106: `_ = server_stop => break`.
SessStop(i) ==
    /\ lsess[i] = "main"
    /\ i \in lsig
    /\ SessionEnd(i)
    /\ UNCHANGED <<lstop, lpc, lstops, lsig, lkind, lact, lcon>>
    /\ UNCHANGED OthersL

\* `_ = timeout.tick()` (108-133, 377-383), taken when server_stop is not
\* ready: act is reset, or the session ends as timed out.
SessTick(i) ==
    /\ lsess[i] = "main"
    /\ i \notin lsig
    /\ IF lact[i]
       THEN /\ lact' = [lact EXCEPT ![i] = FALSE]
            /\ UNCHANGED <<lsess, lopen, lcon>>
       ELSE /\ SessionEnd(i)
            /\ lcon' = [lcon EXCEPT ![i] = (lkind[i] = "read")]
            /\ UNCHANGED lact
    /\ UNCHANGED <<lstop, lpc, lstops, lsig, lkind>>
    /\ UNCHANGED OthersL

\* receive_batch returns a batch of the client (384-391, 142-189) when neither
\* server_stop nor the tick is ready: act = true and the batch is handled.
SessBatch(i) ==
    /\ lsess[i] = "main"
    /\ i \notin lsig
    /\ lcon[i]
    /\ lact' = [lact EXCEPT ![i] = TRUE]
    /\ UNCHANGED <<lstop, lpc, lstops, lsig, lopen, lsess, lkind, lcon>>
    /\ UNCHANGED OthersL

\* receive_batch fails: a read session ends with the error (385); a write
\* session drops con, closes its connection id and stays in its loop (137-141).
SessConErr(i) ==
    /\ lsess[i] = "main"
    /\ i \notin lsig
    /\ lcon[i]
    /\ IF lkind[i] = "read"
       THEN /\ SessionEnd(i)
            /\ UNCHANGED lcon
       ELSE /\ lcon' = [lcon EXCEPT ![i] = FALSE]
            /\ lopen' = lopen \ {i}
            /\ UNCHANGED lsess
    /\ UNCHANGED <<lstop, lpc, lstops, lsig, lkind, lact>>
    /\ UNCHANGED OthersL

NextL ==
    \/ ServerStop
    \/ LoopStop
    \/ \E i \in LIds : Accept(i)
    \/ WaitCheck
    \/ \E i \in LIds, kind \in {"read", "write"} : HelloClient(i, kind)
    \/ \E i \in LIds : HelloClientFail(i)
    \/ \E i \in LIds : SessStop(i)
    \/ \E i \in LIds : SessTick(i)
    \/ \E i \in LIds : SessBatch(i)
    \/ \E i \in LIds : SessConErr(i)

\* What the runtime guarantees: a task whose future is ready is polled, the
\* 10 ms sleep and the interval of a session fire, and the hello ends within
\* hello_timeout. Whether a client sends, fails or connects is not fair.
FairL ==
    /\ WF_vars(LoopStop)
    /\ WF_vars(WaitCheck)
    /\ \A i \in LIds : WF_vars(HelloClientEnd(i))
    /\ \A i \in LIds : WF_vars(SessStop(i))
    /\ \A i \in LIds : WF_vars(SessTick(i))

\* C20 as stated: once the stop signal is sent the accept loop eventually
\* returns with every accepted session signalled, and every session in its
\* main loop eventually terminates, however many connections are open.
C20_StopUnwindsAll ==
    /\ lstop ~> (lpc = "returned" /\ lstops = {})
    /\ \A i \in LIds : (lstop /\ lsess[i] = "main") ~> (lsess[i] = "done")

\* C20, the part that holds: when the loop returns it has signalled every
\* session it accepted, and a signalled session takes no further batch.
C20_ReturnSignalsAll ==
    /\ lpc = "returned" => (lstop /\ lstops = {} /\ \A i \in LIds : lsess[i] # "none" => i \in lsig)
    /\ \A i \in lsig : lpc = "returned"

\* C20, the part that holds: a stop signal sent while the loop is not inside
\* the loop on num_open does unwind everything.
C20_StopAtSelectUnwinds ==
    /\ (lstop /\ lpc = "select") ~> (lpc = "returned")
    /\ \A i \in LIds : (i \in lsig /\ lsess[i] = "main") ~> (lsess[i] = "done")

\* The stop signal is sent while the loop waits on num_open with more than
\* max_connections sessions in their main loops.
C20_StopWhileOverLimit ==
    /\ lstop
    /\ lpc = "wait"
    /\ OverLimit(lopen)
    /\ \A i \in lopen : lsess[i] = "main"

\* C31: the accept loop is at its select, where it accepts, only with at most
\* max_connections tracked connections, so the tracked count never exceeds
\* max_connections + 1; and the tracked ids are exactly the connections that
\* are open, however many times an id was closed.
C31_AcceptsBounded ==
    /\ Cardinality(lopen) <= MaxConnections + 1
    /\ lpc = "select" => Cardinality(lopen) <= MaxConnections
    /\ lopen = {i \in LIds : lsess[i] \in {"hello", "main"} /\ lcon[i]}

\* C31 witness: max_connections + 1 connections are tracked and the loop waits,
\* after a write session closed its id when its connection failed and again
\* when it timed out.
C31_Witness ==
    /\ Cardinality(lopen) = MaxConnections + 1
    /\ lpc = "wait"
    /\ \E i \in LIds : lsess[i] = "done" /\ lkind[i] = "write" /\ ~lcon[i]

\* ========================================================================
\* Specifications
\* ========================================================================

InitBase == InitW /\ InitR /\ InitB /\ InitS /\ InitU /\ InitV /\ InitL

InitAll == InitBase /\ InitXIdle

SpecW == InitAll /\ [][NextW]_vars
SpecC == InitAll /\ [][NextC]_vars

SpecR == InitAll /\ [][NextR]_vars

SpecB == InitAll /\ [][NextB]_vars

SpecS == InitAll /\ [][NextS]_vars

SpecSFair == SpecS /\ FairS

SpecU == InitAll /\ [][NextU]_vars

\* Part U starts with a first subscription up.
InitLater == InitW /\ InitR /\ InitB /\ InitS /\ InitSubscribed /\ InitV /\ InitL
                /\ InitXIdle

SpecUS == InitLater /\ [][NextUS]_vars

SpecUB == InitAll /\ [][NextUB]_vars

SpecUBFair == SpecUB /\ FairU

SpecV == InitAll /\ [][NextV]_vars

\* Part X starts with its inputs drawn.
InitDrawn == InitBase /\ InitX

SpecX == InitDrawn /\ [][NextX]_vars

SpecL == InitAll /\ [][NextL]_vars

SpecLFair == SpecL /\ FairL

====
